---- MODULE Spec2Model ----
(***************************************************************************)
(* A model of the dob-edge fan-out hub (SwarmHubDO): the SSE broadcaster,  *)
(* the fingerprint gate, the attach-time replay, the upstream session with *)
(* its correlation map, and the group lifecycle with its grace timers.     *)
(*                                                                         *)
(* The module holds several specifications over one set of variables.      *)
(* Each specification moves the variables of one part of the hub and       *)
(* leaves the others at their initial values:                              *)
(*   SpecWriteFail, SpecStall, SpecReplay, SpecGate                        *)
(*       the broadcaster, the fingerprint gates and the attach-time replay *)
(*   SpecSession, SpecReconnect, SpecGrace, SpecChain                      *)
(*       the upstream session, its requests, the subscription flows of the *)
(*       per-game and per-competition groups and their grace timers        *)
(*   SpecCache, SpecPre, SpecPreFair                                       *)
(*       the odds cache of a sport group; the odds of a prematch group,    *)
(*       and the same with an odds poll that keeps running                 *)
(*   SpecRing                                                              *)
(*       the counters of the upstream frames                               *)
(*   SpecLife                                                              *)
(*       the counts subscriptions and the heartbeat                        *)
(*   SpecMerge                                                             *)
(*       the merge of the deltas into the state of a subscription          *)
(*   SpecTracker, SpecMetrics                                              *)
(*       the live-tracker proxy of a game; the metrics aggregator          *)
(*   SpecHier                                                              *)
(*       the hierarchy cache                                               *)
(*   SpecOdds, SpecPair                                                    *)
(*       the odds of a market; the passes of the odds handlers over a      *)
(*       cache that holds fingerprint and markets_count apart              *)
(*   SpecSport                                                             *)
(*       the subscriptions of a live sport group                           *)
(*   SpecStop                                                              *)
(*       the interval timers and the functions that stop them              *)
(*   SpecPrio                                                              *)
(*       the market-type priority of the odds handlers                     *)
(*   SpecFlush                                                             *)
(*       the flush alarm of the metrics aggregator                         *)
(*   SpecUi                                                                *)
(*       the live stream of the page                                       *)
(***************************************************************************)
EXTENDS Integers, Sequences, FiniteSets, TLC

(***************************************************************************)
(* Bounds of the model                                                     *)
(***************************************************************************)
FailClients == 2     \* SpecWriteFail: subscribers that attach in one behaviour
FailEmits == 2       \* SpecWriteFail: payloads that pass a fingerprint gate
StallClients == 2    \* SpecStall
StallEmits == 1
ReplayClients == 2   \* SpecReplay
ReplayEmits == 2
GateClients == 1     \* SpecGate
GateEmits == 2
MaxGameId == 1       \* game ids 1..MaxGameId
MaxScore == 1        \* scores 0..MaxScore
MaxSports == 1       \* sport names 1..MaxSports
MaxCount == 1        \* games counted per sport, 0..MaxCount
TrackerSocks == 2    \* SpecTracker: sockets the proxy may create
TrackerIds == 3      \* SpecTracker: subscribers that attach in one behaviour
MetricsGames == 2    \* SpecMetrics: game ids 1..MetricsGames
MetricsClock == 3    \* SpecMetrics: the clock runs to MetricsClock
MetricsTtl == 2      \* SpecMetrics: leaseTtlMs of a report, 1..MetricsTtl ticks
MetricsRequests == 4 \* SpecMetrics: requests served in one behaviour
MetricsSse == 1      \* SpecMetrics: sseClients of a report, 0..MetricsSse
HierCalls == 3       \* SpecHier: calls of getHierarchy in one behaviour
HierDocs == 2        \* SpecHier: documents the feed may answer with, 1..HierDocs
HierSports == 1      \* SpecHier: sports of a document, 0..HierSports
HierClock == 2       \* SpecHier: the clock runs to HierClock
MarketEvents == 4    \* SpecOdds: event ids 1..MarketEvents
MarketOrders == 2    \* SpecOdds: the order of an event, 1..MarketOrders
PairGames == 2       \* SpecPair: game ids 1..PairGames
PairFps == 1         \* SpecPair: odds fingerprints 0..PairFps, 0 for no market
PairCounts == 1      \* SpecPair: markets_count of a game, 0..PairCounts
PairPasses == 3      \* SpecPair: passes over the cache in one behaviour
SportClients == 2    \* SpecSport: subscribers of the group at one time
SportEpochs == 2     \* SpecSport: group objects created in one behaviour
SportSubs == 3       \* SpecSport: subscribes the feed accepts
SportTicks == 2      \* SpecSport: firings of the poll interval
SportTasks == 3      \* SpecSport: callbacks waiting at one time
StopHandles == 5     \* SpecStop: intervals set in one behaviour
MaxKinds == 3        \* SpecPrio: market kinds in one answer of the feed
FlushClock == 14     \* SpecFlush: the clock runs to FlushClock seconds
UiHandles == 13      \* SpecUi: sources and timers created in one behaviour
UiSports == 2        \* SpecUi: sport ids 1..UiSports

VARIABLES
    scope,                 \* the bounds of the specification in force
    \* ---- broadcaster, gate and replay ----
    clients,               \* stream -> ids in the Map, insertion order = id order
    nextClientId,          \* crypto.randomUUID(): ids are handed out once
    signalAborted,         \* ids whose request.signal.aborted is true
    writer,                \* id -> "open" | "stalled" | "errored" | "closed"
    sink,                  \* id -> frames queued on the writer, in call order
    lastFp,                \* group.lastFp of the live sport group
    lastGamesPayload,      \* group.lastGamesPayload
    countsLastLiveFp,
    countsLastPrematchFp,
    countsLivePayload,
    countsPrematchPayload,
    jobs,                  \* broadcast() calls suspended on a write
    finished,              \* broadcast() calls that returned in the latest step
    replay,                \* id -> the attach-time replay task
    lastSent,              \* stream -> event -> the last frame broadcast
    gen,                   \* payloads built so far: the order of the snapshots
    \* ---- upstream session, requests, groups ----
    ws,                    \* this.ws: 0 (null) or the id of a socket
    sessionId,             \* this.sessionId is set
    connecting,            \* this.connecting: 0 (null) or the connect it holds
    sock,                  \* socket id -> readyState, and events still to come
    conn,                  \* socket id -> the connect that created the socket
    connTimer,             \* socket id -> ticks left of the connect timeout, -1 off
    pending,               \* this.pending: ids of the requests in the map
    req,                   \* request id -> its caller, socket and outcome
    age,                   \* request id -> ticks since it was sent
    timers,                \* request ids whose timeout timer is armed
    subscriptions,         \* this.subscriptions: the registry
    grp,                   \* group key -> the group object in the table
    attached,              \* subscribers attached so far
    broken,                \* subscribers whose writes fail
    tasks,                 \* setTimeout(..., 0) callbacks, in order
    waiters,               \* callers awaiting a connect, in order
    \* ---- the clock and the odds cache of a group ----
    now,                   \* Date.now(), in ticks
    oddsCache,             \* group.oddsCache: the Map's entries, insertion order
    oddsAwait,             \* odds handlers suspended on their broadcast
    \* ---- the counters of the upstream frames ----
    wsMessagesTotal,
    wsMessageParseErrorsTotal,
    wsMessageTimestampsBuffer,
    wsMessageTimestampsIndex,
    wsMessageTimestampsCount,
    received,              \* the time of every frame received, in order
    \* ---- the counts subscriptions and those who need them ----
    countsClients,         \* this.countsClients: ids of the counts subscribers
    liveGroup,             \* the live sport group under one key of liveGroups
    countsLiveSubid,       \* 0 for null
    countsPrematchSubid,
    ensuring,              \* calls of ensureCountsSubscriptions in flight
    unsubscribed,          \* subids handed to unsubscribe()
    lifeNext,              \* ids handed out to subscribers and subscriptions
    countsHeartbeatTimer,  \* TRUE while the interval is set
    quiet,                 \* group kind -> ticks its subscribers have had no comment
    \* ---- the odds of a prematch sport group ----
    oddsGameIds,           \* group.oddsGameIds: the ids of the latest games poll
    oddsCursor,            \* group.oddsCursor
    oddsInFlight,          \* group.oddsInFlight
    oddsChunk,             \* the game ids of the odds request in flight
    oddsPoll,              \* the odds poll under way: its stage and its Date.now()
    oddsFrame,             \* the gameIds of the latest odds frame broadcast
    \* ---- the accumulated state of a subscription ----
    subState,              \* entry.state of the subscription, NoDoc before the subscribe
    inbound,               \* the delta of the frame on the socket, NoDoc for none
    mergeSeen,             \* the branches of deepMerge the latest delta has taken
    \* ---- the live-tracker proxy of one game ----
    trackerClients,        \* LiveTrackerDO.clients: ids of the subscribers
    trackerNextId,         \* ids handed out to subscribers
    heartbeatTimer,        \* TRUE while the interval is set
    upstream,              \* this.upstream: 0 (null) or the id of a socket
    upstreamConnected,
    upstreamConnecting,    \* this.upstreamConnecting is set
    readyPending,          \* calls of ensureUpstream that await their broadcast
    pinging,               \* subscribers a broadcast under way is writing to
    trackerSock,           \* socket id -> readyState
    \* ---- the metrics aggregator (HealthMetricsDO) ----
    leases,                \* this.leases: game id -> lease, NoLease for no entry
    dirty,                 \* this.dirty
    served,                \* requests served so far
    response,              \* the body of the latest response
    prunedOnRead,          \* the game ids the latest rollup read has removed
    \* ---- the hierarchy cache ----
    hierStore,             \* storage under 'hierarchy_cache': NoCache or the entry
    hierCalls,             \* call id -> a call of getHierarchy and its refresh
    \* ---- the odds of a market ----
    market,                \* the event map of the preferred market: id -> event
    oddsArr,               \* what buildOddsArrFromMarket has returned for it
    \* ---- the passes of the odds handlers over a cache of pairs ----
    oddsGames,             \* the games of the latest pass: id -> fp, markets_count
    oddsUpdates,           \* updates of the latest pass: the game ids pushed
    passes,                \* passes made so far
    passBy,                \* the handler that made the latest pass
    \* ---- a live sport group and its subscriptions ----
    sportGroup,            \* the group object last put in liveGroups
    sportTasks,            \* setTimeout(..., 0) callbacks of the group, in order
    sportReqs,             \* subscribe requests of the group awaiting their reply
    sportRegistry,         \* this.subscriptions: the subids registered
    sportNextSub,          \* subids handed out by the feed
    sportTicks,            \* firings of the poll interval so far
    \* ---- the interval timers and the references that track them ----
    timerRef,              \* field -> the handle it holds, 0 for null
    armed,                 \* the handles of the intervals the runtime still fires
    nextHandle,            \* handles handed out by setInterval
    lastStop,              \* the stop function that ran in the latest step
    \* ---- the market types in the order the odds handlers try them ----
    prioSport,             \* the sport name of the group
    prioDetails,           \* the market kinds the feed answered get_market_type with, in its order
    prioOk,                \* whether get_market_type was answered at all
    prioPath,              \* the handler that built the list, "idle" and "asked" before
    typePriority,          \* the list the handler hands to pickPreferredMarketFromEmbedded
    \* ---- the flush alarm of the metrics object, in seconds ----
    flushNow,              \* the clock
    flushDirty,            \* the aggregate holds reports that storage does not
    dirtySince,            \* the time of the first report storage does not hold, -1 when there is none
    alarmAt,               \* the time the alarm of the object is set to, -1 when none is set
    flushes,               \* writes of the aggregate to storage
    \* ---- the live stream of the page ----
    currentMode,           \* the mode the page shows
    liveStreamSource,      \* 0 (null) or the EventSource the page holds
    liveStreamSportId,     \* 0 (null) or the sport of the stream
    liveStreamRetryTimeoutId,\* 0 (null) or the handle of the retry timeout
    liveStreamOddsIntervalId,\* 0 (null) or the handle of the odds interval
    liveStreamDetailsIntervalId,\* 0 (null) or the handle of the details interval
    liveStreamHasOddsSse,  \* an odds event has come over the stream
    uiSources,             \* handle -> readyState of the EventSource created under it
    uiTimers,              \* the intervals and timeouts the runtime still fires
    uiNext,                \* the next handle
    uiLast                 \* the latest step of the page and what it cleared

emitVars == <<clients, nextClientId, signalAborted, writer, sink, lastFp,
              lastGamesPayload, countsLastLiveFp, countsLastPrematchFp,
              countsLivePayload, countsPrematchPayload, jobs, finished,
              replay, lastSent, gen>>

sessVars == <<ws, sessionId, connecting, sock, conn, connTimer, pending, req,
              age, timers, subscriptions, grp, attached, broken, tasks, waiters>>

cacheVars == <<oddsCache, oddsAwait>>

ringVars == <<wsMessagesTotal, wsMessageParseErrorsTotal, wsMessageTimestampsBuffer,
              wsMessageTimestampsIndex, wsMessageTimestampsCount, received>>

lifeVars == <<countsClients, liveGroup, countsLiveSubid, countsPrematchSubid,
              ensuring, unsubscribed, lifeNext, countsHeartbeatTimer, quiet>>

preVars == <<oddsGameIds, oddsCursor, oddsInFlight, oddsChunk, oddsPoll, oddsFrame>>

mergeVars == <<subState, inbound, mergeSeen>>

trackerVars == <<trackerClients, trackerNextId, heartbeatTimer, upstream,
                 upstreamConnected, upstreamConnecting, readyPending, pinging,
                 trackerSock>>

metricsVars == <<leases, dirty, served, response, prunedOnRead>>

hierVars == <<hierStore, hierCalls>>

oddsVars == <<market, oddsArr>>

pairVars == <<oddsGames, oddsUpdates, passes, passBy>>

sportVars == <<sportGroup, sportTasks, sportReqs, sportRegistry, sportNextSub, sportTicks>>

stopVars == <<timerRef, armed, nextHandle, lastStop>>

prioVars == <<prioSport, prioDetails, prioOk, prioPath, typePriority>>

flushVars == <<flushNow, flushDirty, dirtySince, alarmAt, flushes>>

uiVars == <<currentMode, liveStreamSource, liveStreamSportId, liveStreamRetryTimeoutId, liveStreamOddsIntervalId, liveStreamDetailsIntervalId, liveStreamHasOddsSse, uiSources, uiTimers, uiNext, uiLast>>

lateVars == <<sportVars, stopVars, prioVars, flushVars, uiVars>>

extVars == <<mergeVars, trackerVars, metricsVars, hierVars, oddsVars, pairVars,
             lateVars>>

oldVars == <<now, cacheVars, ringVars, lifeVars, preVars>>

auxVars == <<oldVars, extVars>>

hubVars == <<sessVars, auxVars>>

vars == <<scope, emitVars, hubVars>>

Null == [null |-> TRUE]

Min(S) == CHOOSE x \in S : \A y \in S : x <= y

(***************************************************************************)
(* Payloads and fingerprints                                               *)
(***************************************************************************)
GameIds == 1..MaxGameId
Games == [id : GameIds, score : 0..MaxScore]

\* the game lists a parsed and filtered snapshot can hold (distinct ids)
GameLists ==
    {s \in UNION {[1..n -> Games] : n \in 0..MaxGameId} :
        \A i, j \in DOMAIN s : i /= j => s[i].id /= s[j].id}

\* the raw counts document: sport -> number of games under it
SportNames == 1..MaxSports
CountsDocs == [SportNames -> 0..MaxCount]

\* Array.prototype.sort on the parts of a fingerprint: ascending, (key, value)
PartLess(p, q) == p[1] < q[1] \/ (p[1] = q[1] /\ p[2] <= q[2])

SortParts(s) ==
    CHOOSE t \in [DOMAIN s -> {s[i] : i \in DOMAIN s}] :
        /\ \A v \in {s[i] : i \in DOMAIN s} :
              Cardinality({i \in DOMAIN s : s[i] = v})
                  = Cardinality({i \in DOMAIN t : t[i] = v})
        /\ \A i, j \in DOMAIN t : i < j => PartLess(t[i], t[j])

\* getSportFp: one part per game, sorted, joined; '' for an empty list
getSportFp(games) == SortParts([i \in DOMAIN games |-> <<games[i].id, games[i].score>>])

IsSportWithGames(s) == s.count > 0

\* extractSportsCountsFromSwarm: the sports that have a name and a game
extractSportsCountsFromSwarm(doc) ==
    SelectSeq([i \in SportNames |-> [name |-> i, count |-> doc[i]]], IsSportWithGames)

\* getCountsFp: name:count sorted by name, joined; '' for an empty list
getCountsFp(sports) == SortParts([i \in DOMAIN sports |-> <<sports[i].name, sports[i].count>>])

EmptyFp == <<>>

(***************************************************************************)
(* Frames                                                                  *)
(***************************************************************************)
\* n is the generation of the payload a frame carries (0 for a comment)
encodeSseEvent(ev, payload) == [ev |-> ev, data |-> payload.data, n |-> payload.n]
encodeSseComment(text) == [ev |-> "comment", data |-> text, n |-> 0]

Streams == {"counts", "live"}
Events == {"games", "counts", "live_counts", "prematch_counts"}
ClientIds == 1..scope.clients

(***************************************************************************)
(* broadcast(clients, bytes)                                               *)
(*                                                                         *)
(* A call is a job: it walks the Map in insertion order, awaits each write *)
(* and removes the dead ones when the loop has ended.  A write on a closed *)
(* or errored writer rejects at once and the loop goes on in the same      *)
(* turn; a write on an open writer is queued and the job is suspended      *)
(* until the subscriber has taken the frame.                               *)
(***************************************************************************)
\* an entry of a writer's queue: the frame, and whether broadcast() wrote it
\* (live) or the attach-time replay
Written(frame, live) == [f |-> frame, live |-> live]

\* a broadcast whose first rejected write ends the loop
OnWriteRejectedBreak(j, c) ==
    [j EXCEPT !.last = scope.clients, !.dead = @ \cup {c}, !.failed = @ \cup {c}]

\* catch { dead.push(id) }: the loop goes on with the next client
OnWriteRejected(j, c) ==
    [j EXCEPT !.last = c, !.dead = @ \cup {c}, !.failed = @ \cup {c}]

\* for (const id of dead) clients.delete(id)
RemoveDead(cl, dead) == cl \ dead

NewJob(stream, frame) ==
    [stream |-> stream, frame |-> frame, last |-> 0, dead |-> {},
     failed |-> {}, ticket |-> 0]

RECURSIVE broadcast(_, _, _, _)
broadcast(j, cl, wr, sk) ==
    LET rest == {c \in cl : c > j.last} IN
    IF rest = {}
    THEN \* for (const id of dead) { writer.close(); clients.delete(id) }
         [job |-> j, done |-> TRUE,
          clients |-> RemoveDead(cl, j.dead),
          writer |-> [c \in DOMAIN wr |->
                        IF c \in j.dead \cap cl /\ wr[c] = "open"
                        THEN "closed" ELSE wr[c]],
          sink |-> [c \in DOMAIN sk |-> IF c \in j.dead \cap cl THEN <<>> ELSE sk[c]]]
    ELSE LET c == Min(rest) IN
         IF c \in signalAborted
         THEN broadcast([j EXCEPT !.last = c, !.dead = @ \cup {c}], cl, wr, sk)
         ELSE IF wr[c] \in {"closed", "errored"}
         THEN broadcast(OnWriteRejected(j, c), cl, wr, sk)
         ELSE LET sk2 == [sk EXCEPT ![c] = Append(@, Written(j.frame, TRUE))] IN
              [job |-> [j EXCEPT !.last = c, !.ticket = Len(sk2[c])],
               done |-> FALSE, clients |-> cl, writer |-> wr, sink |-> sk2]


\* what a resumed await of writer.write sees: the frame was taken, or the
\* stream has errored in the meantime
WriteSettled(c, ticket) ==
    /\ writer[c] /= "stalled"
    /\ \A j \in jobs : j.last = c => j.ticket >= ticket
    /\ replay[c].waiting => replay[c].ticket >= ticket

\* catch { dead.push(id) } of a write that was queued and then rejected
AfterWrite(j) ==
    IF writer[j.last] = "errored"
    THEN [j EXCEPT !.dead = @ \cup {j.last}, !.failed = @ \cup {j.last}]
    ELSE j

Finished(r, before) ==
    [stream |-> r.job.stream, frame |-> r.job.frame, failed |-> r.job.failed,
     dead |-> r.job.dead, before |-> before, remaining |-> r.clients]

\* the calls of one handler, in order: each runs to its first queued write
RECURSIVE RunBroadcasts(_, _)
RunBroadcasts(calls, st) ==
    IF calls = <<>> THEN st
    ELSE LET j == NewJob(calls[1].stream, calls[1].frame)
             r == broadcast(j, st.clients[j.stream], st.writer, st.sink)
         IN RunBroadcasts(Tail(calls),
              [clients |-> [st.clients EXCEPT ![j.stream] = r.clients],
               writer |-> r.writer, sink |-> r.sink,
               jobs |-> IF r.done THEN st.jobs ELSE st.jobs \cup {r.job},
               finished |-> IF r.done /\ st.clients[j.stream] /= {}
                            THEN st.finished \cup {Finished(r, st.clients[j.stream])}
                            ELSE st.finished,
               lastSent |-> IF st.clients[j.stream] /= {}
                            THEN [st.lastSent EXCEPT ![j.stream][j.frame.ev] = j.frame]
                            ELSE st.lastSent])

Emit(calls) ==
    LET st == RunBroadcasts(calls,
                [clients |-> clients, writer |-> writer, sink |-> sink,
                 jobs |-> jobs, finished |-> {}, lastSent |-> lastSent])
    IN /\ clients' = st.clients
       /\ writer' = st.writer
       /\ sink' = st.sink
       /\ jobs' = st.jobs
       /\ finished' = st.finished
       /\ lastSent' = st.lastSent

\* a suspended broadcast() goes on after its write has settled
BroadcastResume(j) ==
    /\ j \in jobs
    /\ WriteSettled(j.last, j.ticket)
    /\ LET r == broadcast(AfterWrite(j), clients[j.stream], writer, sink) IN
       /\ clients' = [clients EXCEPT ![j.stream] = r.clients]
       /\ writer' = r.writer
       /\ sink' = r.sink
       /\ jobs' = (jobs \ {j}) \cup (IF r.done THEN {} ELSE {r.job})
       /\ finished' = IF r.done THEN {Finished(r, clients[j.stream])} ELSE {}
    /\ UNCHANGED <<scope, hubVars, nextClientId, signalAborted, lastFp, lastGamesPayload,
                   countsLastLiveFp, countsLastPrematchFp, countsLivePayload,
                   countsPrematchPayload, replay, gen, lastSent>>

(***************************************************************************)
(* The fingerprint gates                                                   *)
(***************************************************************************)
\* handleLiveSportGamesEmit, from the games the snapshot parses to
handleLiveSportGamesEmit(games) ==
    /\ clients["live"] /= {}
    /\ LET fp == getSportFp(games) IN
       /\ ~(fp /= EmptyFp /\ fp = lastFp /\ lastGamesPayload /= Null)
       /\ gen < scope.emits
       /\ lastFp' = fp
       /\ LET payload == [data |-> games, n |-> gen + 1] IN
          /\ lastGamesPayload' = payload
          /\ Emit(<<[stream |-> "live", frame |-> encodeSseEvent("games", payload)]>>)
    /\ gen' = gen + 1
    /\ UNCHANGED <<scope, hubVars, nextClientId, signalAborted, countsLastLiveFp,
                   countsLastPrematchFp, countsLivePayload,
                   countsPrematchPayload, replay>>

\* handleCountsEmit(kind, data)
handleCountsEmit(kind, doc) ==
    LET sports == extractSportsCountsFromSwarm(doc)
        fp == getCountsFp(sports)
        payload == [data |-> sports, n |-> gen + 1]
    IN /\ nextClientId > 1   \* counts are asked for once a subscriber has attached
       /\ gen < scope.emits
       /\ gen' = gen + 1
       /\ IF kind = "live"
          THEN /\ ~(fp /= EmptyFp /\ fp = countsLastLiveFp)
               /\ countsLastLiveFp' = fp
               /\ countsLivePayload' = payload
               /\ Emit(<<[stream |-> "counts", frame |-> encodeSseEvent("live_counts", payload)],
                         [stream |-> "live", frame |-> encodeSseEvent("counts", payload)]>>)
               /\ UNCHANGED <<countsLastPrematchFp, countsPrematchPayload>>
          ELSE /\ ~(fp /= EmptyFp /\ fp = countsLastPrematchFp)
               /\ countsLastPrematchFp' = fp
               /\ countsPrematchPayload' = payload
               /\ Emit(<<[stream |-> "counts", frame |-> encodeSseEvent("prematch_counts", payload)],
                         [stream |-> "live", frame |-> encodeSseEvent("prematch_counts", payload)]>>)
               /\ UNCHANGED <<countsLastLiveFp, countsLivePayload>>
       /\ UNCHANGED <<scope, hubVars, nextClientId, signalAborted, lastFp, lastGamesPayload, replay>>


(***************************************************************************)
(* Attach and the attach-time replay                                       *)
(***************************************************************************)
Padding == encodeSseComment("padding")
Ready == encodeSseComment("ready")

Retained(ev, payload) == IF payload = Null THEN <<>> ELSE <<encodeSseEvent(ev, payload)>>

NoReplay == [todo |-> <<>>, waiting |-> FALSE, ticket |-> 0]

\* the synchronous part of an attach: the client enters the Map, the retained
\* payloads are captured, the replay is left to a timer callback
Attach(stream, aborted, frames) ==
    /\ nextClientId <= scope.clients
    /\ LET id == nextClientId IN
       /\ clients' = [clients EXCEPT ![stream] = @ \cup {id}]
       /\ writer' = [writer EXCEPT ![id] = "open"]
       /\ replay' = [replay EXCEPT ![id] = [NoReplay EXCEPT !.todo = frames]]
       /\ signalAborted' = IF aborted THEN signalAborted \cup {id} ELSE signalAborted
    /\ nextClientId' = nextClientId + 1
    /\ finished' = {}
    /\ UNCHANGED <<scope, hubVars, sink, lastFp, lastGamesPayload, countsLastLiveFp,
                   countsLastPrematchFp, countsLivePayload,
                   countsPrematchPayload, jobs, gen, lastSent>>

\* handleSportStream(request, 'live'); the request may have been cancelled
\* while the handler awaited the sport name
handleSportStream(aborted) ==
    Attach("live", aborted,
           <<Padding, Ready>> \o Retained("counts", countsLivePayload)
               \o Retained("prematch_counts", countsPrematchPayload)
               \o Retained("games", lastGamesPayload))

\* handleCountsStream(request)
handleCountsStream ==
    Attach("counts", FALSE,
           <<Padding, Ready>> \o Retained("live_counts", countsLivePayload)
               \o Retained("prematch_counts", countsPrematchPayload))

\* one turn of the replay: the write awaited has settled, the next is issued;
\* the first rejected write ends the replay (catch { ignore })
ReplayStep(c) ==
    /\ replay[c].todo /= <<>> \/ replay[c].waiting
    /\ replay[c].waiting => WriteSettled(c, replay[c].ticket)
    /\ IF (replay[c].waiting /\ writer[c] = "errored")
          \/ (replay[c].todo /= <<>> /\ writer[c] \in {"closed", "errored"})
       THEN /\ replay' = [replay EXCEPT ![c] = NoReplay]
            /\ sink' = sink
       ELSE IF replay[c].todo = <<>>
       THEN /\ replay' = [replay EXCEPT ![c] = NoReplay]
            /\ sink' = sink
       ELSE /\ sink' = [sink EXCEPT ![c] = Append(@, Written(Head(replay[c].todo), FALSE))]
            /\ replay' = [replay EXCEPT ![c] =
                            [todo |-> Tail(@.todo), waiting |-> TRUE,
                             ticket |-> Len(sink[c]) + 1]]
    /\ finished' = {}
    /\ UNCHANGED <<scope, hubVars, clients, nextClientId, signalAborted, writer,
                   lastFp, lastGamesPayload, countsLastLiveFp,
                   countsLastPrematchFp, countsLivePayload,
                   countsPrematchPayload, jobs, gen, lastSent>>

\* stopCountsSubscriptions, the part that runs before its first await
stopCountsSubscriptions ==
    /\ countsLastLiveFp' = EmptyFp
    /\ countsLastPrematchFp' = EmptyFp
    /\ countsLivePayload' = Null
    /\ countsPrematchPayload' = Null

\* request.signal 'abort' of a subscriber
OnAbort(c) ==
    /\ writer[c] /= "none"
    /\ c \notin signalAborted
    /\ signalAborted' = signalAborted \cup {c}
    /\ clients' = [s \in Streams |-> clients[s] \ {c}]
    /\ writer' = [writer EXCEPT ![c] =
                    IF c \in UNION {clients[s] : s \in Streams} /\ @ = "open"
                    THEN "closed" ELSE @]
    /\ IF clients'["counts"] = {} /\ clients'["live"] = {}
       THEN stopCountsSubscriptions
       ELSE UNCHANGED <<countsLastLiveFp, countsLastPrematchFp,
                        countsLivePayload, countsPrematchPayload>>
    /\ sink' = [sink EXCEPT ![c] = <<>>]
    /\ finished' = {}
    /\ UNCHANGED <<scope, hubVars, nextClientId, lastFp, lastGamesPayload, jobs, replay,
                   gen, lastSent>>

\* the subscriber goes away without the signal firing: its stream errors
WriterErrors(c) ==
    /\ writer[c] \in {"open", "stalled"}
    /\ writer' = [writer EXCEPT ![c] = "errored"]
    /\ finished' = {}
    /\ UNCHANGED <<scope, hubVars, clients, nextClientId, signalAborted, sink, lastFp,
                   lastGamesPayload, countsLastLiveFp, countsLastPrematchFp,
                   countsLivePayload, countsPrematchPayload, jobs, replay,
                   gen, lastSent>>

\* the subscriber stops reading: writes on its stream no longer complete
WriterStalls(c) ==
    /\ writer[c] = "open"
    /\ writer' = [writer EXCEPT ![c] = "stalled"]
    /\ finished' = {}
    /\ UNCHANGED <<scope, hubVars, clients, nextClientId, signalAborted, sink, lastFp,
                   lastGamesPayload, countsLastLiveFp, countsLastPrematchFp,
                   countsLivePayload, countsPrematchPayload, jobs, replay,
                   gen, lastSent>>

\* resetAfterDisconnect, as far as the gates see it
resetAfterDisconnectFps ==
    /\ countsLastLiveFp' = EmptyFp
    /\ countsLastPrematchFp' = EmptyFp
    /\ countsLivePayload' = Null
    /\ countsPrematchPayload' = Null
    /\ lastFp' = EmptyFp
    /\ finished' = {}
    /\ UNCHANGED <<scope, hubVars, clients, nextClientId, signalAborted, writer, sink,
                   lastGamesPayload, jobs, replay, gen, lastSent>>

(***************************************************************************)
(* The upstream session                                                    *)
(*                                                                         *)
(* Time advances in ticks of 15 s.  A handler and the promise reactions it *)
(* sets off run as one step: the operators below take the hub's state as a *)
(* record and return the state the handler leaves.                         *)
(***************************************************************************)
ConnectTicks == 1    \* connect timeout, 15000 ms
RequestTicks == 4    \* default request timeout, 60000 ms
ShortTicks == 1      \* timeout of unsubscribe and of a poll, 15000 ms
GraceTicks == 2      \* GROUP_GRACE_MS, 30000 ms
RingSlots == 3       \* slots of the timestamp ring, 2000 in the source

Keys == {"game", "comp"}   \* one live game group, one competition odds group

\* an async call that is awaiting the connection or a reply
\*   fn  "session" (the handshake of connect arg), "ensure", "poll", "unsub"
\*   arg the socket of a handshake, the subid of an unsubscribe, 1 for an
\*       ensure whose rejection is swallowed
Flow(fn, k, epoch, arg) == [fn |-> fn, k |-> k, epoch |-> epoch, arg |-> arg]
NoFlow == Flow("none", "none", 0, 0)

Limit(f) == IF f.fn \in {"unsub", "poll"} THEN ShortTicks ELSE RequestTicks

SockIds == 1..scope.socks
Rids == 1..scope.rids

Hub ==
    [ok |-> TRUE, ws |-> ws, sessionId |-> sessionId, connecting |-> connecting,
     sock |-> sock, conn |-> conn, connTimer |-> connTimer, pending |-> pending,
     req |-> req, age |-> age, timers |-> timers,
     subscriptions |-> subscriptions, grp |-> grp, attached |-> attached,
     broken |-> broken, tasks |-> tasks, waiters |-> waiters]

\* the step ends in h; a step that needs more sockets or request ids than
\* the bounds give is not taken
Commit(h) ==
    /\ h.ok
    /\ ws' = h.ws
    /\ sessionId' = h.sessionId
    /\ connecting' = h.connecting
    /\ sock' = h.sock
    /\ conn' = h.conn
    /\ connTimer' = h.connTimer
    /\ pending' = h.pending
    /\ req' = h.req
    /\ age' = h.age
    /\ timers' = h.timers
    /\ subscriptions' = h.subscriptions
    /\ grp' = h.grp
    /\ attached' = h.attached
    /\ broken' = h.broken
    /\ tasks' = h.tasks
    /\ waiters' = h.waiters
    /\ UNCHANGED <<scope, emitVars, auxVars>>

\* broadcast(group.clients, bytes) as the group sees it: the subscribers
\* whose write fails are removed
Sweep(g, dead) == [g EXCEPT !.clients = RemoveDead(@, @ \cap dead)]

\* a caller holds its group object; once the object has left the table what
\* the caller does to it is seen by nobody
Held(h, f) == h.grp[f.k]

OnGroup(h, f, g) ==
    IF h.grp[f.k].inTable /\ h.grp[f.k].epoch = f.epoch
    THEN [h EXCEPT !.grp[f.k] = g]
    ELSE h

RECURSIVE Fail(_, _), ConnSettles(_, _, _), Resume(_, _, _), Await(_, _)

\* sendRequest after its ensureConnection: the entry, its timer, the frame
Send(h, f) ==
    IF h.ws = 0 \/ h.sock[h.ws] /= "open"
    THEN Fail(h, f)     \* 'Swarm WebSocket not connected'
    ELSE LET free == {r \in DOMAIN h.req : h.req[r].state = "unused"} IN
         IF free = {} THEN [h EXCEPT !.ok = FALSE]
         ELSE LET rid == Min(free) IN
              [h EXCEPT !.pending = @ \cup {rid},
                        !.req[rid] = [state |-> "pending", f |-> f, sock |-> h.ws],
                        !.age[rid] = 0,
                        !.timers = @ \cup {rid}]

\* the body of this.connecting up to its first await: the old socket is
\* closed, a new one is created and becomes this.ws
NewSocket(h, s) ==
    [h EXCEPT !.sock = [x \in DOMAIN @ |->
                          IF x = s THEN "connecting"
                          ELSE IF x = h.ws /\ @[x] \in {"connecting", "open"}
                          THEN "closing" ELSE @[x]],
              !.ws = s,
              !.sessionId = FALSE,
              !.conn[s] = "awaitOpen",
              !.connTimer[s] = ConnectTicks,
              !.connecting = s]

\* await ensureConnection() and the sendRequest that follows it
Await(h, f) ==
    IF f.fn = "session" THEN Send(h, f)
    ELSE IF h.ws /= 0 /\ h.sock[h.ws] = "open" /\ h.sessionId THEN Send(h, f)
    ELSE IF h.connecting /= 0
    THEN [h EXCEPT !.waiters = Append(@, [on |-> h.connecting, f |-> f])]
    ELSE LET free == {s \in DOMAIN h.sock : h.sock[s] = "unused"} IN
         IF free = {} THEN [h EXCEPT !.ok = FALSE]
         ELSE [NewSocket(h, Min(free)) EXCEPT
                  !.waiters = Append(@, [on |-> Min(free), f |-> f])]

\* the catch and finally blocks of a call whose await has rejected
Fail(h, f) ==
    CASE f.fn = "session" -> ConnSettles(h, f.arg, FALSE)
      [] f.fn = "ensure" /\ f.k = "game" ->
            \* startGameGroup: broadcast an error; finally subscribing = false
            OnGroup(h, f, [Sweep(Held(h, f), h.broken) EXCEPT !.subscribing = FALSE])
      [] f.fn = "ensure" /\ f.k = "comp" ->
            IF f.arg = 1 THEN h
            ELSE OnGroup(h, f, Sweep(Held(h, f), h.broken))
      [] f.fn = "poll" ->
            OnGroup(h, f, [Sweep(Held(h, f), h.broken) EXCEPT !.pollInFlight = FALSE])
      [] OTHER -> h     \* unsubscribe: catch { return }

Resume(h, ws_, ok) ==
    IF ws_ = <<>> THEN h
    ELSE Resume(IF ok THEN Await(h, Head(ws_).f) ELSE Fail(h, Head(ws_).f),
                Tail(ws_), ok)

\* this.connecting settles: finally { this.connecting = null }, and every
\* caller that awaited it goes on
ConnSettles(h, s, ok) ==
    Resume([h EXCEPT !.conn[s] = IF ok THEN "resolved" ELSE "rejected",
                     !.connTimer[s] = -1,
                     !.connecting = 0,
                     !.waiters = SelectSeq(@, LAMBDA w : w.on /= s)],
           SelectSeq(h.waiters, LAMBDA w : w.on = s), ok)

(***************************************************************************)
(* Groups                                                                  *)
(***************************************************************************)
\* a key of the table with no group under it; epoch counts the group
\* objects created under the key, emptyAge the ticks the last one has spent
\* without a subscriber
NoGroup(epoch, emptyAge) ==
    [inTable |-> FALSE, epoch |-> epoch, clients |-> {}, subid |-> 0,
     subscribing |-> FALSE, pollInFlight |-> FALSE, lastPayload |-> FALSE,
     cleanupTimer |-> -1, emptyAge |-> emptyAge]

NewGroup(epoch) == [NoGroup(epoch, 0) EXCEPT !.inTable = TRUE]

startGameGroup(h) ==
    LET g == h.grp["game"]
        h1 == [h EXCEPT !.grp["game"].cleanupTimer = -1]
    IN IF g.subid /= 0 \/ g.subscribing THEN h1
       ELSE [h1 EXCEPT !.grp["game"].subscribing = TRUE,
                       !.tasks = Append(@, Flow("ensure", "game", g.epoch, 0))]

\* the groups that still have subscribers are set to subscribe again
Reschedule(h) ==
    LET h1 == IF h.grp["game"].inTable /\ h.grp["game"].clients /= {}
              THEN startGameGroup(h) ELSE h
    IN IF h1.grp["comp"].inTable /\ h1.grp["comp"].clients /= {}
       THEN [h1 EXCEPT !.tasks = Append(@, Flow("ensure", "comp", h1.grp["comp"].epoch, 1))]
       ELSE h1

resetAfterDisconnect(h) ==
    Reschedule([h EXCEPT !.subscriptions = {},
                         !.grp = [k \in Keys |->
                                    IF @[k].inTable
                                    THEN [@[k] EXCEPT !.subid = 0, !.subscribing = FALSE]
                                    ELSE @[k]]])

\* a close that empties the map and tells no caller
dropAllPending(h) ==
    [h EXCEPT !.timers = @ \ h.pending, !.pending = {}]

rejectAllPending(h) ==
    [h EXCEPT !.timers = @ \ h.pending,
              !.req = [r \in DOMAIN @ |->
                         IF r \in h.pending THEN [@[r] EXCEPT !.state = "rejected"]
                         ELSE @[r]],
              !.pending = {}]

RECURSIVE FailAll(_, _, _)
FailAll(h, rids, before) ==
    IF rids = {} THEN h
    ELSE FailAll(Fail(h, before.req[Min(rids)].f), rids \ {Min(rids)}, before)

\* the 'close' and the 'error' listener of a socket, then the rejections
\* reaching the callers
OnSocketGone(h) ==
    FailAll(resetAfterDisconnect(
                rejectAllPending([h EXCEPT !.sessionId = FALSE, !.ws = 0,
                                           !.connecting = 0])),
            h.pending, h)

\* a timer callback that rejects the caller and leaves the entry in the map
expireKeepsEntry(h, r) ==
    [h EXCEPT !.timers = @ \ {r}, !.req[r].state = "timedout"]

\* the timer callback of sendRequest
expire(h, r) ==
    [h EXCEPT !.pending = @ \ {r}, !.timers = @ \ {r}, !.req[r].state = "timedout"]

\* onEmit of a game subscription or the reply of a poll, with the game in it
GameOnEmit(g, dead) == [Sweep(g, dead) EXCEPT !.lastPayload = TRUE]

\* subscribeGet has its reply: the registry entry, the first emission, the
\* group's subid, and for a game group the poll and the finally block
Subscribed(h, f, subid, hasData) ==
    LET h1 == [h EXCEPT !.subscriptions =
                            @ \cup {[subid |-> subid, k |-> f.k, epoch |-> f.epoch]}]
        h2 == IF ~hasData THEN h1
              ELSE IF f.k = "game" THEN OnGroup(h1, f, GameOnEmit(Held(h1, f), h1.broken))
              ELSE OnGroup(h1, f, Sweep(Held(h1, f), h1.broken))
        h3 == OnGroup(h2, f, [Held(h2, f) EXCEPT !.subid = subid, !.subscribing = FALSE])
    IN IF f.k = "game" /\ h3.grp["game"].inTable /\ h3.grp["game"].epoch = f.epoch
          /\ ~h3.grp["game"].lastPayload
       THEN [h3 EXCEPT !.tasks = Append(@, Flow("poll", "game", f.epoch, 0))]
       ELSE h3

\* the 'message' listener on a frame that carries the id of a pending request
Resolve(h, r, good, hasData) ==
    LET f == h.req[r].f
        h1 == [h EXCEPT !.pending = @ \ {r}, !.timers = @ \ {r},
                        !.req[r].state = "resolved"]
    IN CASE f.fn = "session" ->
               IF good THEN ConnSettles([h1 EXCEPT !.sessionId = TRUE], f.arg, TRUE)
               ELSE ConnSettles(h1, f.arg, FALSE)
         [] f.fn = "ensure" ->
               IF good THEN Subscribed(h1, f, r, hasData) ELSE Fail(h1, f)
         [] f.fn = "poll" ->
               OnGroup(h1, f,
                   [(IF good /\ hasData THEN GameOnEmit(Held(h1, f), h1.broken)
                     ELSE Held(h1, f))
                       EXCEPT !.pollInFlight = FALSE])
         [] OTHER -> h1

\* unsubscribe(subid)
unsubscribe(h, k, epoch, subid) ==
    Await([h EXCEPT !.subscriptions = {x \in @ : x.subid /= subid}],
          Flow("unsub", k, epoch, subid))

(***************************************************************************)
(* Steps of the hub: requests of subscribers, timer callbacks, socket      *)
(* events                                                                  *)
(***************************************************************************)
\* the group under the key, created if the table has none
Lookup(h, k) ==
    IF h.grp[k].inTable THEN h
    ELSE [h EXCEPT !.grp[k] = NewGroup(@.epoch + 1)]

\* an attach that leaves a pending grace timer running
JoinKeepsTimer(h, k, gone) ==
    LET id == Len(h.attached) + 1 IN
    [h EXCEPT !.grp[k].clients = @ \cup {id},
              !.grp[k].emptyAge = 0,
              !.attached = Append(@, [k |-> k, epoch |-> h.grp[k].epoch, aborted |-> gone,
                                      grace |-> h.grp[k].cleanupTimer]),
              !.broken = IF gone THEN @ \cup {id} ELSE @]

\* the subscriber enters the group's Map; gone: its signal was aborted before
\* the listener was added, so the listener never runs and its writes fail;
\* grace: the ticks the group's grace timer had left at the attach, -1 if
\* none was pending
Join(h, k, gone) ==
    LET id == Len(h.attached) + 1 IN
    [h EXCEPT !.grp[k].clients = @ \cup {id},
              !.grp[k].cleanupTimer = -1,
              !.grp[k].emptyAge = 0,
              !.attached = Append(@, [k |-> k, epoch |-> h.grp[k].epoch, aborted |-> gone,
                                      grace |-> h.grp[k].cleanupTimer]),
              !.broken = IF gone THEN @ \cup {id} ELSE @]

handleLiveGameStream ==
    /\ Len(attached) < scope.attaches
    /\ LET h1 == startGameGroup(Join(Lookup(Hub, "game"), "game", FALSE))
       IN Commit(IF h1.grp["game"].lastPayload THEN h1
                 ELSE [h1 EXCEPT !.tasks = Append(@, Flow("poll", "game", h1.grp["game"].epoch, 0))])

handleCompetitionOddsStream(gone) ==
    /\ Len(attached) < scope.attaches
    /\ LET h1 == Join(Lookup(Hub, "comp"), "comp", gone)
       IN Commit([h1 EXCEPT !.tasks = Append(@, Flow("ensure", "comp", h1.grp["comp"].epoch, 0))])

\* the 'abort' listener of a subscriber
StartGrace(g) ==
    IF g.clients = {} /\ g.cleanupTimer = -1
    THEN [g EXCEPT !.cleanupTimer = GraceTicks] ELSE g

OnSignalAbort(c) ==
    /\ c \in 1..Len(attached)
    /\ ~attached[c].aborted
    /\ LET m == attached[c]
           h1 == [Hub EXCEPT !.attached[c].aborted = TRUE, !.broken = @ \ {c}]
       IN Commit(OnGroup(h1, Flow("abort", m.k, m.epoch, 0),
                         StartGrace([h1.grp[m.k] EXCEPT !.clients = @ \ {c}])))

\* the subscriber has gone away and its signal has not fired
WriterFails(c) ==
    /\ \E k \in Keys : c \in grp[k].clients
    /\ c \notin broken
    /\ Commit([Hub EXCEPT !.broken = @ \cup {c}])

\* the callback of a setTimeout(..., 0)
RunTask ==
    /\ tasks /= <<>>
    /\ LET t == Head(tasks)
           h == [Hub EXCEPT !.tasks = Tail(@)]
           g == grp[t.k]
           mine == g.inTable /\ g.epoch = t.epoch
       IN Commit(
            CASE t.fn = "ensure" /\ t.k = "game" ->
                   \* ensureLiveGameSubscription: if (group.subid) return
                   IF mine /\ g.subid /= 0
                   THEN [h EXCEPT !.grp["game"].subscribing = FALSE]
                   ELSE Await(h, t)
              [] t.fn = "ensure" /\ t.k = "comp" ->
                   \* ensureCompetitionOddsSubscription: if (group.subid) return
                   IF mine /\ g.subid /= 0 THEN h ELSE Await(h, t)
              [] OTHER ->
                   \* pollGameGroup
                   IF ~mine \/ g.clients = {} \/ g.pollInFlight THEN h
                   ELSE Await([h EXCEPT !.grp["game"].pollInFlight = TRUE], t))

\* the grace timer's callback
GraceExpires(k) ==
    /\ grp[k].cleanupTimer = 0
    /\ LET g == grp[k] IN
       IF g.clients /= {}
       THEN Commit([Hub EXCEPT !.grp[k].cleanupTimer = -2])
       ELSE LET h == [Hub EXCEPT !.grp[k] = NoGroup(g.epoch, g.emptyAge)]
            IN Commit(IF g.subid /= 0 THEN unsubscribe(h, k, g.epoch, g.subid) ELSE h)

\* the timeout of a request fires
RequestTimeout(r) ==
    /\ r \in timers
    /\ age[r] >= Limit(req[r].f)
    /\ Commit(Fail(expire(Hub, r), req[r].f))

\* the connect timeout fires; the socket is left as it is
ConnectTimeout(s) ==
    /\ connTimer[s] = 0
    /\ Commit([ConnSettles(Hub, s, FALSE) EXCEPT !.conn[s] = "timedout"])

SocketOpens(s) ==
    /\ sock[s] = "connecting"
    /\ LET h == [Hub EXCEPT !.sock[s] = "open"] IN
       Commit(IF conn[s] = "awaitOpen"
              THEN Await([h EXCEPT !.conn[s] = "awaitSession", !.connTimer[s] = -1],
                         Flow("session", "none", 0, s))
              ELSE h)

\* an 'error' event; the 'close' event of the socket is still to come
SocketErrors(s) ==
    /\ sock[s] \in {"connecting", "open"}
    /\ LET h == OnSocketGone([Hub EXCEPT !.sock[s] = "erred"]) IN
       Commit(IF h.conn[s] = "awaitOpen" THEN ConnSettles(h, s, FALSE) ELSE h)

SocketCloses(s) ==
    /\ sock[s] \in {"connecting", "open", "erred", "closing"}
    /\ Commit(OnSocketGone([Hub EXCEPT !.sock[s] = "closed"]))

\* the upstream replies to a request; good: with a session id, or with code 0
\* and a subid; hasData: with the game, or with odds, in it
Reply(r, good, hasData) ==
    /\ r \in pending
    /\ sock[req[r].sock] = "open"
    /\ scope.healthy => good
    /\ Commit(Resolve(Hub, r, good, hasData))

\* a delta of a subscription in the registry, with a change in it
Delta(x) ==
    /\ x \in subscriptions
    /\ sock[req[x.subid].sock] = "open"
    /\ grp[x.k].inTable /\ grp[x.k].epoch = x.epoch
    /\ Commit(OnGroup(Hub, Flow("emit", x.k, x.epoch, 0),
                      IF x.k = "game" THEN GameOnEmit(grp[x.k], broken)
                      ELSE Sweep(grp[x.k], broken)))

\* 15 s pass; the callbacks that are due run first, and so do the
\* zero-delay ones
Dec(t) == IF t > 0 THEN t - 1 ELSE t

Tick ==
    /\ tasks = <<>>
    /\ \A r \in timers : age[r] < Limit(req[r].f)
    /\ \A s \in SockIds : connTimer[s] /= 0
    /\ \A k \in Keys : grp[k].cleanupTimer /= 0
    /\ scope.healthy => \A r \in pending : age[r] + 1 < Limit(req[r].f)
    /\ Commit([Hub EXCEPT
          !.age = [r \in DOMAIN @ |->
                     IF r \in pending /\ @[r] <= Limit(req[r].f) THEN @[r] + 1 ELSE @[r]],
          !.connTimer = [s \in DOMAIN @ |-> Dec(@[s])],
          !.grp = [k \in Keys |->
                     [@[k] EXCEPT !.cleanupTimer = Dec(@),
                                  !.emptyAge = IF grp[k].epoch > 0 /\ grp[k].clients = {}
                                                  /\ @ <= GraceTicks
                                               THEN @ + 1 ELSE @]]])

\* the bounds of a specification
Scope(nClients, nEmits, nSocks, nRids, nAttaches, healthy) ==
    [clients |-> nClients, emits |-> nEmits, socks |-> nSocks, rids |-> nRids,
     attaches |-> nAttaches, healthy |-> healthy]

\* the session and the group table after construction
InitHub ==
    /\ ws = 0
    /\ sessionId = FALSE
    /\ connecting = 0
    /\ sock = [s \in SockIds |-> "unused"]
    /\ conn = [s \in SockIds |-> "none"]
    /\ connTimer = [s \in SockIds |-> -1]
    /\ pending = {}
    /\ req = [r \in Rids |-> [state |-> "unused", f |-> NoFlow, sock |-> 0]]
    /\ age = [r \in Rids |-> 0]
    /\ timers = {}
    /\ subscriptions = {}
    /\ grp = [k \in Keys |-> NoGroup(0, 0)]
    /\ attached = <<>>
    /\ broken = {}
    /\ tasks = <<>>
    /\ waiters = <<>>
    /\ now = 0
    /\ oddsCache = <<>>
    /\ oddsAwait = 0
    /\ wsMessagesTotal = 0
    /\ wsMessageParseErrorsTotal = 0
    /\ wsMessageTimestampsBuffer = [i \in 0..(RingSlots - 1) |-> 0]
    /\ wsMessageTimestampsIndex = 0
    /\ wsMessageTimestampsCount = 0
    /\ received = <<>>
    /\ countsClients = {}
    /\ liveGroup = [inTable |-> FALSE, clients |-> {}, cleanupTimer |-> -1]
    /\ countsLiveSubid = 0
    /\ countsPrematchSubid = 0
    /\ ensuring = <<>>
    /\ unsubscribed = {}
    /\ lifeNext = 1
    /\ countsHeartbeatTimer = FALSE
    /\ quiet = [kind \in {"counts", "live"} |-> 0]
    /\ oddsGameIds = <<>>
    /\ oddsCursor = 0
    /\ oddsInFlight = FALSE
    /\ oddsChunk = <<>>
    /\ oddsPoll = [stage |-> "idle", now |-> 0]
    /\ oddsFrame = {}
    /\ subState = [t |-> "none", v |-> 0]
    /\ inbound = [t |-> "none", v |-> 0]
    /\ mergeSeen = {}
    /\ trackerClients = {}
    /\ trackerNextId = 1
    /\ heartbeatTimer = FALSE
    /\ upstream = 0
    /\ upstreamConnected = FALSE
    /\ upstreamConnecting = FALSE
    /\ readyPending = 0
    /\ pinging = {}
    /\ trackerSock = [x \in 1..TrackerSocks |-> "unused"]
    /\ leases = [g \in 1..MetricsGames |->
                    [sse_clients |-> 0, upstream_connected |-> FALSE, expires_at_ms |-> -1]]
    /\ dirty = FALSE
    /\ served = 0
    /\ response = [kind |-> "none"]
    /\ prunedOnRead = {}
    /\ hierStore = [cachedAtMs |-> -1, data |-> [ver |-> 0, sports |-> 0]]
    /\ hierCalls = [c \in 1..HierCalls |->
                       [pc |-> "unused", background |-> FALSE, zero |-> FALSE,
                        returned |-> [ver |-> 0, sports |-> 0],
                        result |-> [ver |-> 0, sports |-> 0]]]
    /\ market = [i \in 1..MarketEvents |-> [type |-> "none", order |-> 0]]
    /\ oddsArr = [built |-> FALSE, labels |-> <<>>]
    /\ oddsGames = [g \in 1..PairGames |-> [fp |-> -1, markets_count |-> -1]]
    /\ oddsUpdates = {}
    /\ passes = 0
    /\ passBy = "none"
    /\ sportGroup = [inTable |-> FALSE, epoch |-> 0, clients |-> 0, timer |-> FALSE,
                     cleanupTimer |-> FALSE, gamesSubid |-> 0,
                     gamesSubscribing |-> FALSE, oddsSubid |-> 0,
                     oddsSubscribing |-> FALSE]
    /\ sportTasks = <<>>
    /\ sportReqs = {}
    /\ sportRegistry = {}
    /\ sportNextSub = 1
    /\ sportTicks = 0
    /\ timerRef = [f \in {"countsHeartbeatTimer", "heartbeatTimer", "timer", "oddsTimer"} |-> 0]
    /\ armed = {}
    /\ nextHandle = 1
    /\ lastStop = "none"
    /\ prioSport = "football"
    /\ prioDetails = <<>>
    /\ prioOk = FALSE
    /\ prioPath = "idle"
    /\ typePriority = <<>>
    /\ flushNow = 0
    /\ flushDirty = FALSE
    /\ dirtySince = -1
    /\ alarmAt = -1
    /\ flushes = 0
    /\ currentMode = "prematch"
    /\ liveStreamSource = 0
    /\ liveStreamSportId = 0
    /\ liveStreamRetryTimeoutId = 0
    /\ liveStreamOddsIntervalId = 0
    /\ liveStreamDetailsIntervalId = 0
    /\ liveStreamHasOddsSse = FALSE
    /\ uiSources = [x \in 1..UiHandles |-> "unused"]
    /\ uiTimers = {}
    /\ uiNext = 1
    /\ uiLast = [op |-> "none", cleared |-> 0]

InitEmit(nClients, nEmits) ==
    /\ scope = Scope(nClients, nEmits, 0, 0, 0, FALSE)
    /\ InitHub
    /\ clients = [s \in Streams |-> {}]
    /\ nextClientId = 1
    /\ signalAborted = {}
    /\ writer = [c \in ClientIds |-> "none"]
    /\ sink = [c \in ClientIds |-> <<>>]
    /\ lastFp = EmptyFp
    /\ lastGamesPayload = Null
    /\ countsLastLiveFp = EmptyFp
    /\ countsLastPrematchFp = EmptyFp
    /\ countsLivePayload = Null
    /\ countsPrematchPayload = Null
    /\ jobs = {}
    /\ finished = {}
    /\ replay = [c \in ClientIds |-> NoReplay]
    /\ lastSent = [s \in Streams |-> [e \in Events |-> Null]]
    /\ gen = 0

\* a hub with sockets, request ids and attaches to spend, no SSE traffic
InitSession(nSocks, nRids, nAttaches, healthy) ==
    /\ scope = Scope(0, 0, nSocks, nRids, nAttaches, healthy)
    /\ InitHub
    /\ clients = [s \in Streams |-> {}]
    /\ nextClientId = 1
    /\ signalAborted = {}
    /\ writer = <<>>
    /\ sink = <<>>
    /\ lastFp = EmptyFp
    /\ lastGamesPayload = Null
    /\ countsLastLiveFp = EmptyFp
    /\ countsLastPrematchFp = EmptyFp
    /\ countsLivePayload = Null
    /\ countsPrematchPayload = Null
    /\ jobs = {}
    /\ finished = {}
    /\ replay = <<>>
    /\ lastSent = [s \in Streams |-> [e \in Events |-> Null]]
    /\ gen = 0

\* the subscribers' side and the suspended tasks
Subscribers ==
    \/ \E c \in ClientIds : ReplayStep(c)
    \/ \E c \in ClientIds : OnAbort(c)
    \/ \E j \in jobs : BroadcastResume(j)

\* write failures: one live group, its games emissions, writers that error
InitWriteFail == InitEmit(FailClients, FailEmits)

NextWriteFail ==
    \/ \E a \in BOOLEAN : handleSportStream(a)
    \/ \E c \in ClientIds : WriterErrors(c)
    \/ \E g \in GameLists : handleLiveSportGamesEmit(g)
    \/ Subscribers

SpecWriteFail == InitWriteFail /\ [][NextWriteFail]_vars

\* the fingerprint gates: both streams, both kinds of payload, no faults
InitGate == InitEmit(GateClients, GateEmits)

NextGate ==
    \/ handleSportStream(FALSE)
    \/ handleCountsStream
    \/ \E g \in GameLists : handleLiveSportGamesEmit(g)
    \/ \E k \in {"live", "prematch"}, d \in CountsDocs : handleCountsEmit(k, d)
    \/ resetAfterDisconnectFps
    \/ Subscribers

SpecGate == InitGate /\ [][NextGate]_vars

\* the attach-time replay racing the live emissions, no faults
InitReplay == InitEmit(ReplayClients, ReplayEmits)

NextReplay ==
    \/ handleSportStream(FALSE)
    \/ handleCountsStream
    \/ \E g \in GameLists : handleLiveSportGamesEmit(g)
    \/ \E d \in CountsDocs : handleCountsEmit("live", d)
    \/ Subscribers

SpecReplay == InitReplay /\ [][NextReplay]_vars

\* subscribers that stop reading; the hub's own steps are taken when enabled
InitStall == InitEmit(StallClients, StallEmits)

NextStall ==
    \/ handleSportStream(FALSE)
    \/ \E c \in ClientIds : WriterStalls(c)
    \/ \E g \in GameLists : handleLiveSportGamesEmit(g)
    \/ Subscribers

HubSteps ==
    \/ \E c \in ClientIds : ReplayStep(c)
    \/ \E j \in jobs : BroadcastResume(j)

SpecStall == InitStall /\ [][NextStall]_vars /\ WF_vars(HubSteps)

Frames(c) == {sink[c][i] : i \in DOMAIN sink[c]}

\* C4: when a broadcast returns, the subscribers it removed are those whose
\* write failed or whose signal was aborted, none of the failed ones is left,
\* and every subscriber left in the Map was written the frame
WriteIsolation ==
    \A f \in finished :
        /\ (f.before \ f.remaining) \subseteq (f.failed \cup signalAborted)
        /\ f.failed \cap f.remaining = {}
        /\ \A c \in f.remaining : Written(f.frame, TRUE) \in Frames(c)

\* a broadcast returned after a write failed, and left another subscriber
WriteIsolationReached ==
    \E f \in finished :
        /\ f.failed \cap f.before /= {}
        /\ f.remaining /= {}
        /\ \A c \in f.remaining : Written(f.frame, TRUE) \in Frames(c)

\* the fingerprint of the payload a frame carries
FrameFp(frame) ==
    IF frame.ev = "games" THEN getSportFp(frame.data) ELSE getCountsFp(frame.data)

\* C3: two payloads of one kind broadcast one after the other to a group's
\* subscribers never have equal fingerprints
SuccessiveFpsDiffer ==
    [][\A s \in Streams, e \in Events :
          (lastSent[s][e] /= Null /\ lastSent'[s][e] /= lastSent[s][e])
              => FrameFp(lastSent'[s][e]) /= FrameFp(lastSent[s][e])]_vars

\* C5: a subscriber that has stopped reading while a broadcast awaits its
\* write is removed from its group, so the broadcast goes on to the others
StalledIsRemoved ==
    \A c \in 1..StallClients :
        (writer[c] = "stalled" /\ c \in clients["live"]
            /\ \E j \in jobs : j.last = c)
        ~> (c \notin clients["live"])

\* C9: a live frame is written to a subscriber only after its replay has
\* written padding, ready and the retained payloads
ReplayBeforeLive ==
    \A c \in ClientIds : \A i \in DOMAIN sink[c] :
        sink[c][i].live =>
            /\ replay[c].todo = <<>>
            /\ \A k \in i..Len(sink[c]) : sink[c][k].live

\* C10: the payloads of one kind written to a subscriber never go back to
\* an older generation
NoOlderSnapshot ==
    \A c \in ClientIds : \A i, k \in DOMAIN sink[c] :
        (i < k /\ sink[c][i].f.ev = sink[c][k].f.ev)
            => sink[c][i].f.n <= sink[c][k].f.n

\* C11: the frames broadcast to a subscriber are written in the order in
\* which the hub received the updates they carry
ArrivalOrderKept ==
    \A c \in ClientIds : \A i, k \in DOMAIN sink[c] :
        (i < k /\ sink[c][i].live /\ sink[c][k].live)
            => sink[c][i].f.n <= sink[c][k].f.n

(***************************************************************************)
(* The session specifications                                              *)
(***************************************************************************)
SessionSocks == 2
SessionRids == 3
SessionAttaches == 1

GroupRequests ==
    \/ handleLiveGameStream
    \/ \E gone \in BOOLEAN : handleCompetitionOddsStream(gone)
    \/ \E c \in 1..scope.attaches : OnSignalAbort(c)
    \/ \E c \in 1..scope.attaches : WriterFails(c)

Timers ==
    \/ RunTask
    \/ \E k \in Keys : GraceExpires(k)
    \/ \E r \in Rids : RequestTimeout(r)
    \/ \E s \in SockIds : ConnectTimeout(s)
    \/ Tick

Upstream ==
    \/ \E s \in SockIds : SocketOpens(s)
    \/ \E s \in SockIds : SocketErrors(s)
    \/ \E s \in SockIds : SocketCloses(s)
    \/ \E r \in Rids, good, hasData \in BOOLEAN : Reply(r, good, hasData)
    \/ \E x \in subscriptions : Delta(x)

NextHub == GroupRequests \/ Timers \/ Upstream

InitSessionSpec == InitSession(SessionSocks, SessionRids, SessionAttaches, FALSE)

SpecSession == InitSessionSpec /\ [][NextHub]_vars

\* an upstream that answers every request it is sent, with success and
\* before the request times out; its sockets may be slow to open
ReconnectSocks == 2
ReconnectRids == 3
ReconnectAttaches == 1

InitReconnect == InitSession(ReconnectSocks, ReconnectRids, ReconnectAttaches, TRUE)

NextReconnect ==
    \/ GroupRequests
    \/ RunTask
    \/ \E k \in Keys : GraceExpires(k)
    \/ \E s \in SockIds : ConnectTimeout(s)
    \/ Tick
    \/ Upstream

SpecReconnect == InitReconnect /\ [][NextReconnect]_vars

\* C6: a 'close' or an 'error' event of an upstream socket rejects every
\* request that was pending and leaves the correlation map empty
PendingRejectedOnClose ==
    [][(\E s \in SockIds : sock'[s] /= sock[s] /\ sock'[s] \in {"erred", "closed"})
          => /\ pending' = {}
             /\ \A r \in pending : req'[r].state = "rejected"]_vars

\* a subscribe request was pending when the socket went, and was rejected
PendingRejectedReached ==
    /\ pending = {}
    /\ ws = 0
    /\ \E r \in Rids : req[r].state = "rejected" /\ req[r].f.fn = "ensure"

\* C8: no entry stays in the correlation map past the timeout of its
\* request, and a request that has timed out has no entry
NoEntryPastTimeout ==
    /\ \A r \in pending : age[r] <= Limit(req[r].f)
    /\ \A r \in Rids : req[r].state = "timedout" => r \notin pending

\* a request got no reply within its timeout and its entry is gone
TimedOutReached ==
    \E r \in Rids :
        /\ req[r].state = "timedout"
        /\ age[r] = Limit(req[r].f)
        /\ r \notin pending

\* C1: the registry never holds two subscriptions made with the same
\* parameters: at most one per game id, at most one per mode:competition
AtMostOnePerParams ==
    \A k \in Keys : Cardinality({x \in subscriptions : x.k = k}) <= 1

\* C2: a group that has been without a subscriber for longer than the grace
\* is out of the table and none of its subscriptions is in the registry
GraceCorrect ==
    \A k \in Keys :
        (grp[k].clients = {} /\ grp[k].emptyAge > GraceTicks)
            => /\ ~grp[k].inTable
               /\ \A x \in subscriptions : x.k /= k

\* nothing is scheduled, awaited or in flight, and no socket has an event
\* to come unless the upstream disconnects again
Quiet ==
    /\ tasks = <<>>
    /\ waiters = <<>>
    /\ pending = {}
    /\ \A s \in SockIds : sock[s] \in {"unused", "open", "closed"}

\* C7: after an upstream disconnect, once the hub has come to rest on an
\* upstream that answers, every group with a subscriber holds a subscription
ResubscribedWhenQuiet ==
    (Quiet /\ \E s \in SockIds : sock[s] = "closed")
        => \A k \in Keys :
              (grp[k].inTable /\ grp[k].clients /= {}) => grp[k].subid /= 0

(***************************************************************************)
(* Groups through a grace period: two attaches on one socket, an upstream  *)
(* that answers                                                            *)
(***************************************************************************)
GraceSocks == 1
GraceRids == 3
GraceAttaches == 2

InitGrace == InitSession(GraceSocks, GraceRids, GraceAttaches, TRUE)

NextGrace ==
    \/ GroupRequests
    \/ RunTask
    \/ \E k \in Keys : GraceExpires(k)
    \/ \E s \in SockIds : ConnectTimeout(s)
    \/ Tick
    \/ Upstream

SpecGrace == InitGrace /\ [][NextGrace]_vars

\* C12: a group that has a subscriber is in the table with no grace timer
\* pending, whatever timer was pending when the subscriber attached, and no
\* step that leaves it with a subscriber cancels a subscription of the group
\* (the registry loses one only when the upstream socket goes)
GraceCancelledOnAttach ==
    [][\A k \in Keys :
          grp'[k].clients /= {} =>
              /\ grp'[k].inTable
              /\ grp'[k].cleanupTimer = -1
              /\ \/ {x \in subscriptions : x.k = k} \subseteq subscriptions'
                 \/ \E s \in SockIds :
                        sock'[s] /= sock[s] /\ sock'[s] \in {"erred", "closed"}]_vars

\* a subscriber attached while the grace timer was running, and the group is
\* in the table with this subscriber and the subscription it holds
GraceCancelReached ==
    \E c \in 1..Len(attached) :
        LET k == attached[c].k IN
        /\ attached[c].grace >= 0
        /\ attached[c].grace < GraceTicks
        /\ c \in grp[k].clients
        /\ grp[k].epoch = attached[c].epoch
        /\ grp[k].subid /= 0
        /\ \E x \in subscriptions : x.k = k /\ x.subid = grp[k].subid

(***************************************************************************)
(* Sockets that follow one another: three sockets, one subscriber          *)
(***************************************************************************)
ChainSocks == 3
ChainRids == 2
ChainAttaches == 1

InitChain == InitSession(ChainSocks, ChainRids, ChainAttaches, TRUE)

NextChain ==
    \/ GroupRequests
    \/ RunTask
    \/ \E k \in Keys : GraceExpires(k)
    \/ \E s \in SockIds : ConnectTimeout(s)
    \/ Tick
    \/ Upstream

SpecChain == InitChain /\ [][NextChain]_vars

\* the sockets the hub has created that are connecting or open
LiveSockets == {s \in SockIds : sock[s] \in {"connecting", "open"}}

\* C13: the hub has at most one upstream socket connecting or open, and a
\* call of ensureConnection during a connect or a session creates none
AtMostOneConnection == Cardinality(LiveSockets) <= 1

\* C14: a socket whose connect timed out has been closed, and the hub holds
\* no handle of it and no connect in progress for it
TimedOutConnectIsCleaned ==
    \A s \in SockIds :
        conn[s] = "timedout" =>
            /\ sock[s] \notin {"connecting", "open"}
            /\ ws /= s
            /\ connecting /= s

(***************************************************************************)
(* The odds cache of a group                                               *)
(*                                                                         *)
(* An odds handler writes the entries of the games of an emission, awaits  *)
(* the broadcast of the updates and cleans the cache when the broadcast    *)
(* has returned.  The fingerprint of an entry stands for its odds and its  *)
(* markets_count.                                                          *)
(***************************************************************************)
ODDS_CACHE_MAX_SIZE == 2    \* 1000 entries in the source
ODDS_CACHE_TTL_MS == 1      \* 3600000 ms, in ticks
CacheGames == 3             \* game ids 1..CacheGames
CacheFps == 1               \* odds fingerprints 0..CacheFps
CacheTicks == 2             \* the clock runs to CacheTicks
CacheAwaits == 2            \* handlers suspended at once

OnlyCache == UNCHANGED <<scope, emitVars, sessVars, ringVars, lifeVars, preVars, extVars>>

CacheIds(cache) == {cache[i].id : i \in DOMAIN cache}

\* Map.prototype.set: a new key goes to the end, a known key keeps its place
CacheSet(cache, e) ==
    IF e.id \in CacheIds(cache)
    THEN [i \in DOMAIN cache |-> IF cache[i].id = e.id THEN e ELSE cache[i]]
    ELSE Append(cache, e)

IsFresh(e, t) == ~(t - e.updatedAtMs > ODDS_CACHE_TTL_MS)

\* the place of entry i after the stable sort by updatedAtMs
AgeRank(cache, i) ==
    Cardinality({j \in DOMAIN cache :
        \/ cache[j].updatedAtMs < cache[i].updatedAtMs
        \/ (cache[j].updatedAtMs = cache[i].updatedAtMs /\ j < i)})

RECURSIVE Keep(_, _, _)
Keep(cache, i, drop) ==
    IF i > Len(cache) THEN <<>>
    ELSE (IF AgeRank(cache, i) < drop THEN <<>> ELSE <<cache[i]>>)
             \o Keep(cache, i + 1, drop)

cleanOddsCache(cache, t) ==
    LET fresh == SelectSeq(cache, LAMBDA e : IsFresh(e, t))
    IN IF Len(fresh) > ODDS_CACHE_MAX_SIZE
       THEN Keep(fresh, 1, Len(fresh) - ODDS_CACHE_MAX_SIZE)
       ELSE fresh

\* the loop over the games of an emission, in the order of their ids; an
\* entry is written for every game, and the game is in the updates when it
\* is new or its fingerprint has changed
RECURSIVE WriteEntries(_, _, _, _)
WriteEntries(cache, fps, ids, t) ==
    IF ids = {} THEN cache
    ELSE LET g == Min(ids) IN
         WriteEntries(CacheSet(cache, [id |-> g, fp |-> fps[g], updatedAtMs |-> t]),
                      fps, ids \ {g}, t)

Updates(cache, fps) ==
    {g \in DOMAIN fps :
        \A i \in DOMAIN cache : cache[i].id = g => cache[i].fp /= fps[g]}

\* handleLiveSportOddsEmit up to its await; fps: the games of the emission
\* and the fingerprints of their odds
handleLiveSportOddsEmit(fps) ==
    /\ DOMAIN fps /= {}
    /\ LET written == WriteEntries(oddsCache, fps, DOMAIN fps, now) IN
       IF Updates(oddsCache, fps) /= {}
       THEN /\ oddsAwait < CacheAwaits
            /\ oddsAwait' = oddsAwait + 1
            /\ oddsCache' = written
       ELSE /\ oddsAwait' = oddsAwait
            /\ oddsCache' = cleanOddsCache(written, now)
    /\ now' = now
    /\ OnlyCache

\* the broadcast of a handler has returned: the handler cleans the cache
OddsBroadcastReturns ==
    /\ oddsAwait > 0
    /\ oddsAwait' = oddsAwait - 1
    /\ oddsCache' = cleanOddsCache(oddsCache, now)
    /\ now' = now
    /\ OnlyCache

CacheTick ==
    /\ now < CacheTicks
    /\ now' = now + 1
    /\ UNCHANGED cacheVars
    /\ OnlyCache

InitCache == InitSession(0, 0, 0, FALSE)

NextCache ==
    \/ \E ids \in SUBSET (1..CacheGames) : \E fps \in [ids -> 0..CacheFps] :
          handleLiveSportOddsEmit(fps)
    \/ OddsBroadcastReturns
    \/ CacheTick

SpecCache == InitCache /\ [][NextCache]_vars

\* C15: the odds cache of a group never holds more than ODDS_CACHE_MAX_SIZE
\* entries
CacheIsBounded == Len(oddsCache) <= ODDS_CACHE_MAX_SIZE

(***************************************************************************)
(* The counters of the upstream frames                                     *)
(***************************************************************************)
WindowTicks == 2     \* the window of the rolling count, 60000 ms
RingFrames == 5      \* frames received in one behaviour
RingClock == 4       \* the clock runs to RingClock

OnlyRing == UNCHANGED <<scope, emitVars, sessVars, cacheVars, lifeVars, preVars, extVars>>

\* a count that takes every slot in use, whatever its age
countSlotsInUse == wsMessageTimestampsCount

getWsMessagesLast60s ==
    Cardinality({i \in 0..(wsMessageTimestampsCount - 1) :
                    now - wsMessageTimestampsBuffer[i] <= WindowTicks})

\* the 'message' listener on a frame, as far as the counters go
recordWsMessage(kind) ==
    /\ wsMessagesTotal < RingFrames
    /\ wsMessagesTotal' = wsMessagesTotal + 1
    /\ wsMessageTimestampsBuffer' =
          [wsMessageTimestampsBuffer EXCEPT ![wsMessageTimestampsIndex] = now]
    /\ wsMessageTimestampsIndex' = (wsMessageTimestampsIndex + 1) % RingSlots
    /\ wsMessageTimestampsCount' =
          IF wsMessageTimestampsCount < RingSlots
          THEN wsMessageTimestampsCount + 1 ELSE wsMessageTimestampsCount
    /\ wsMessageParseErrorsTotal' =
          IF kind = "parse_error" THEN wsMessageParseErrorsTotal + 1
          ELSE wsMessageParseErrorsTotal
    /\ received' = Append(received, now)
    /\ now' = now
    /\ OnlyRing

RingTick ==
    /\ now < RingClock
    /\ now' = now + 1
    /\ UNCHANGED ringVars
    /\ OnlyRing

InitRing == InitSession(0, 0, 0, FALSE)

NextRing ==
    \/ \E kind \in {"ok", "parse_error"} : recordWsMessage(kind)
    \/ RingTick

SpecRing == InitRing /\ [][NextRing]_vars

\* the frames received in the last 60 s
ReceivedInWindow == {i \in DOMAIN received : now - received[i] <= WindowTicks}

\* C16: the rolling count is the number of frames received in the last 60 s
\* as long as no more frames than the ring has slots were received in all,
\* and it is never more than the number of slots
RollingCountExact ==
    /\ wsMessagesTotal <= RingSlots
          => getWsMessagesLast60s = Cardinality(ReceivedInWindow)
    /\ getWsMessagesLast60s <= RingSlots

\* the ring is full for the first time, with frames inside the window and
\* frames that have left it
RollingCountReached ==
    /\ wsMessagesTotal = RingSlots
    /\ getWsMessagesLast60s > 0
    /\ getWsMessagesLast60s < wsMessagesTotal
    /\ getWsMessagesLast60s = Cardinality(ReceivedInWindow)

(***************************************************************************)
(* The counts subscriptions: who starts them and who stops them            *)
(*                                                                         *)
(* One key of liveGroups, the counts subscribers, and the two upstream     *)
(* subscriptions of the counts.  The upstream stays connected.             *)
(***************************************************************************)
LifeIds == 5         \* ids handed out: subscribers and subscriptions
LifeCalls == 2       \* calls of ensureCountsSubscriptions in flight
QuietCap == 2        \* the ticks without a comment are counted up to QuietCap

OnlyLife == UNCHANGED <<scope, emitVars, sessVars, now, cacheVars, ringVars, preVars, extVars>>

hasActiveLiveSportClients(g) == g.inTable /\ g.clients /= {}

\* stopCountsSubscriptions: the subids are forgotten and unsubscribed
StopCounts ==
    /\ unsubscribed' = unsubscribed \cup ({countsLiveSubid, countsPrematchSubid} \ {0})
    /\ countsLiveSubid' = 0
    /\ countsPrematchSubid' = 0

KeepCounts == UNCHANGED <<unsubscribed, countsLiveSubid, countsPrematchSubid>>

\* handleCountsStream: the first counts subscriber starts the heartbeat and
\* schedules the ensure
CountsAttach ==
    /\ lifeNext <= LifeIds
    /\ countsClients' = countsClients \cup {lifeNext}
    /\ lifeNext' = lifeNext + 1
    /\ IF countsClients = {}
       THEN Len(ensuring) < LifeCalls /\ ensuring' = Append(ensuring, "task")
       ELSE ensuring' = ensuring
    /\ countsHeartbeatTimer' = (countsClients = {} \/ countsHeartbeatTimer)
    /\ KeepCounts
    /\ UNCHANGED <<liveGroup, quiet>>
    /\ OnlyLife

\* the 'abort' listener of a counts subscriber
CountsAbort(c) ==
    /\ c \in countsClients
    /\ countsClients' = countsClients \ {c}
    /\ IF countsClients' = {} /\ ~hasActiveLiveSportClients(liveGroup)
       THEN StopCounts ELSE KeepCounts
    /\ countsHeartbeatTimer' = (countsHeartbeatTimer /\ countsClients' /= {})
    /\ quiet' = IF countsClients' = {} THEN [quiet EXCEPT !["counts"] = 0] ELSE quiet
    /\ UNCHANGED <<liveGroup, ensuring, lifeNext>>
    /\ OnlyLife

\* handleSportStream(request, 'live')
LiveAttach ==
    /\ lifeNext <= LifeIds
    /\ liveGroup' = [inTable |-> TRUE, clients |-> liveGroup.clients \cup {lifeNext},
                     cleanupTimer |-> -1]
    /\ lifeNext' = lifeNext + 1
    /\ IF countsLiveSubid = 0 \/ countsPrematchSubid = 0
       THEN Len(ensuring) < LifeCalls /\ ensuring' = Append(ensuring, "task")
       ELSE ensuring' = ensuring
    /\ KeepCounts
    /\ UNCHANGED <<countsClients, countsHeartbeatTimer, quiet>>
    /\ OnlyLife

\* the 'abort' listener of a live sport subscriber
LiveAbort(c) ==
    /\ c \in liveGroup.clients
    /\ LET left == liveGroup.clients \ {c} IN
       /\ liveGroup' = [liveGroup EXCEPT
                            !.clients = left,
                            !.cleanupTimer = IF left = {} /\ @ = -1 THEN GraceTicks ELSE @]
       /\ IF left = {} /\ countsClients = {} THEN StopCounts ELSE KeepCounts
       /\ quiet' = IF left = {} THEN [quiet EXCEPT !["live"] = 0] ELSE quiet
    /\ UNCHANGED <<countsClients, ensuring, lifeNext, countsHeartbeatTimer>>
    /\ OnlyLife

\* the grace timer of the live sport group fires
LiveGraceExpires ==
    /\ liveGroup.cleanupTimer = 0
    /\ IF liveGroup.clients = {}
       THEN /\ liveGroup' = [inTable |-> FALSE, clients |-> {}, cleanupTimer |-> -1]
            /\ IF countsClients = {} THEN StopCounts ELSE KeepCounts
       ELSE /\ liveGroup' = [liveGroup EXCEPT !.cleanupTimer = -2]
            /\ KeepCounts
    /\ UNCHANGED <<countsClients, ensuring, lifeNext, countsHeartbeatTimer, quiet>>
    /\ OnlyLife

\* 15 s pass.  The interval of startCountsHeartbeat pings the counts
\* subscribers and stops itself when there are none; the timers of a sport
\* group poll the upstream and write no comment
LifeTick ==
    /\ liveGroup.cleanupTimer /= 0
    /\ liveGroup' = [liveGroup EXCEPT !.cleanupTimer = Dec(@)]
    /\ countsHeartbeatTimer' = (countsHeartbeatTimer /\ countsClients /= {})
    /\ quiet' = [kind \in DOMAIN quiet |->
                    LET subs == IF kind = "counts" THEN countsClients ELSE liveGroup.clients
                    IN IF subs = {} \/ (kind = "counts" /\ countsHeartbeatTimer) THEN 0
                       ELSE IF quiet[kind] < QuietCap THEN quiet[kind] + 1 ELSE quiet[kind]]
    /\ KeepCounts
    /\ UNCHANGED <<countsClients, ensuring, lifeNext>>
    /\ OnlyLife

Without(q, i) == [j \in 1..(Len(q) - 1) |-> IF j < i THEN q[j] ELSE q[j + 1]]

\* ensureCountsSubscriptions from its start to its first await
ensureCountsSubscriptions(i) ==
    /\ i \in DOMAIN ensuring
    /\ ensuring[i] = "task"
    /\ ensuring' = IF countsLiveSubid /= 0 /\ countsPrematchSubid /= 0
                   THEN Without(ensuring, i)
                   ELSE [ensuring EXCEPT ![i] = IF countsLiveSubid = 0 THEN "live" ELSE "prematch"]
    /\ KeepCounts
    /\ UNCHANGED <<countsClients, liveGroup, lifeNext, countsHeartbeatTimer, quiet>>
    /\ OnlyLife

\* a subscribeGet of ensureCountsSubscriptions settles
CountsSubscribed(i, ok) ==
    /\ i \in DOMAIN ensuring
    /\ ensuring[i] \in {"live", "prematch"}
    /\ lifeNext <= LifeIds
    /\ IF ~ok
       THEN /\ ensuring' = Without(ensuring, i)
            /\ UNCHANGED <<countsLiveSubid, countsPrematchSubid, lifeNext>>
       ELSE /\ lifeNext' = lifeNext + 1
            /\ IF ensuring[i] = "live"
               THEN /\ countsLiveSubid' = lifeNext
                    /\ countsPrematchSubid' = countsPrematchSubid
                    /\ ensuring' = IF countsPrematchSubid = 0
                                   THEN [ensuring EXCEPT ![i] = "prematch"]
                                   ELSE Without(ensuring, i)
               ELSE /\ countsPrematchSubid' = lifeNext
                    /\ countsLiveSubid' = countsLiveSubid
                    /\ ensuring' = Without(ensuring, i)
    /\ UNCHANGED <<countsClients, liveGroup, unsubscribed, countsHeartbeatTimer, quiet>>
    /\ OnlyLife

InitLife == InitSession(0, 0, 0, FALSE)

NextLife ==
    \/ CountsAttach
    \/ \E c \in 1..LifeIds : CountsAbort(c)
    \/ LiveAttach
    \/ \E c \in 1..LifeIds : LiveAbort(c)
    \/ LiveGraceExpires
    \/ LifeTick
    \/ \E i \in 1..LifeCalls : ensureCountsSubscriptions(i)
    \/ \E i \in 1..LifeCalls, ok \in BOOLEAN : CountsSubscribed(i, ok)

SpecLife == InitLife /\ [][NextLife]_vars

\* C17: no step that leaves a counts subscriber, or a live sport group in the
\* table, cancels a counts subscription
CountsKept ==
    [][(countsClients' /= {} \/ liveGroup'.inTable)
          => unsubscribed' = unsubscribed]_vars

\* C18: a group that has had a subscriber for 15 s has written its
\* subscribers a liveness comment in that time: no group with subscribers
\* goes two ticks without one
HeartbeatEvery15s == \A kind \in DOMAIN quiet : quiet[kind] <= 1

\* a call of ensureLiveGameSubscription is scheduled, awaits the connection
\* or awaits its reply
GameEnsureUnderWay ==
    \/ \E i \in DOMAIN tasks : tasks[i].fn = "ensure" /\ tasks[i].k = "game"
    \/ \E i \in DOMAIN waiters : waiters[i].f.fn = "ensure" /\ waiters[i].f.k = "game"
    \/ \E r \in pending : req[r].f.fn = "ensure" /\ req[r].f.k = "game"

\* C19: a game group that has subscribers, no subscription and no attempt
\* to subscribe under way has its fallback poll running: a poll is in
\* flight or the next one is scheduled
FallbackPollRuns ==
    LET g == grp["game"] IN
    (g.inTable /\ g.clients /= {} /\ g.subid = 0 /\ ~GameEnsureUnderWay)
        => \/ g.pollInFlight
           \/ \E i \in DOMAIN tasks : tasks[i].fn = "poll" /\ tasks[i].epoch = g.epoch

(***************************************************************************)
(* The odds of a prematch sport group                                      *)
(*                                                                         *)
(* The games poll names the games of the group; the odds poll asks for the *)
(* odds of a chunk of them, from the cursor on, and broadcasts the games   *)
(* of the reply whose odds have changed.  The subscription to the featured *)
(* odds broadcasts the changed games of each of its emissions.  The reply  *)
(* of an odds request holds games of its chunk only.  The snapshot of the  *)
(* cache, read by the replay of an attach alone, is left out.              *)
(***************************************************************************)
ODDS_CHUNK_SIZE == 1         \* 30 game ids in the source
ODDS_REFRESH_AFTER_MS == 0   \* 60000 ms: an entry is stale a tick after its write
PreGames == 2                \* game ids 1..PreGames
PreClock == 2                \* the clock runs to PreClock
PreAwaits == 1               \* featured handlers suspended at once

OnlyPre == UNCHANGED <<scope, emitVars, sessVars, ringVars, lifeVars, extVars>>

RECURSIVE Ascending(_)
Ascending(S) == IF S = {} THEN <<>> ELSE <<Min(S)>> \o Ascending(S \ {Min(S)})

\* the games part of pollSportGroup: the ids of the reply replace
\* oddsGameIds, the cursor restarts when their number or the first of them
\* has changed, and the entries of the games that are gone leave the cache
pollSportGroup(ids) ==
    LET nextIds == Ascending(ids)
        prevFirst == IF Len(oddsGameIds) > 0 THEN oddsGameIds[1] ELSE 0
        nextFirst == IF Len(nextIds) > 0 THEN nextIds[1] ELSE 0
    IN /\ oddsCursor' = IF Len(oddsGameIds) /= Len(nextIds) \/ prevFirst /= nextFirst
                        THEN 0 ELSE oddsCursor
       /\ oddsGameIds' = nextIds
       /\ oddsCache' = SelectSeq(oddsCache, LAMBDA e : e.id \in ids)
       /\ UNCHANGED <<now, oddsAwait, oddsInFlight, oddsChunk, oddsPoll, oddsFrame>>
       /\ OnlyPre

NeedsRefresh(cache, gid, t) ==
    \A i \in DOMAIN cache :
        cache[i].id = gid => t - cache[i].updatedAtMs > ODDS_REFRESH_AFTER_MS

\* the loop of pollSportOddsGroup over allIds from the cursor on
RECURSIVE ScanChunk(_, _, _, _, _, _)
ScanChunk(allIds, cache, t, idx, scanned, chunk) ==
    LET most == IF ODDS_CHUNK_SIZE < Len(allIds) THEN ODDS_CHUNK_SIZE ELSE Len(allIds)
    IN IF Len(chunk) < most /\ scanned < Len(allIds)
       THEN LET gid == allIds[idx + 1] IN
            ScanChunk(allIds, cache, t, (idx + 1) % Len(allIds), scanned + 1,
                      IF NeedsRefresh(cache, gid, t) THEN Append(chunk, gid) ELSE chunk)
       ELSE [chunk |-> chunk, idx |-> idx]

\* pollSportOddsGroup up to its request
pollSportOddsGroup ==
    /\ ~oddsInFlight
    /\ Len(oddsGameIds) > 0
    /\ LET scan == ScanChunk(oddsGameIds, oddsCache, now,
                             oddsCursor % Len(oddsGameIds), 0, <<>>)
       IN /\ oddsCursor' = scan.idx
          /\ IF scan.chunk = <<>>
             THEN /\ oddsCache' = cleanOddsCache(oddsCache, now)
                  /\ UNCHANGED <<oddsInFlight, oddsChunk, oddsPoll>>
             ELSE /\ oddsInFlight' = TRUE
                  /\ oddsChunk' = scan.chunk
                  /\ oddsPoll' = [stage |-> "request", now |-> now]
                  /\ oddsCache' = oddsCache
    /\ UNCHANGED <<now, oddsAwait, oddsGameIds, oddsFrame>>
    /\ OnlyPre

\* the reply of the odds request; fps: its games and the fingerprints of
\* their odds.  The entries take the time the poll began at.
OddsChunkAnswered(fps) ==
    /\ oddsPoll.stage = "request"
    /\ LET written == WriteEntries(oddsCache, fps, DOMAIN fps, oddsPoll.now)
           updates == Updates(oddsCache, fps)
       IN IF updates /= {}
          THEN /\ oddsFrame' = updates
               /\ oddsCache' = written
               /\ oddsPoll' = [oddsPoll EXCEPT !.stage = "broadcast"]
               /\ oddsInFlight' = oddsInFlight
          ELSE /\ oddsFrame' = oddsFrame
               /\ oddsCache' = cleanOddsCache(written, now)
               /\ oddsPoll' = [stage |-> "idle", now |-> 0]
               /\ oddsInFlight' = FALSE
    /\ oddsChunk' = <<>>
    /\ UNCHANGED <<now, oddsAwait, oddsGameIds, oddsCursor>>
    /\ OnlyPre

\* the odds request is rejected or answered with an error code: the poll
\* awaits the broadcast of an error frame
OddsChunkFails ==
    /\ oddsPoll.stage = "request"
    /\ oddsPoll' = [oddsPoll EXCEPT !.stage = "error"]
    /\ oddsChunk' = <<>>
    /\ UNCHANGED <<now, cacheVars, oddsGameIds, oddsCursor, oddsInFlight, oddsFrame>>
    /\ OnlyPre

\* the broadcast of the poll has returned: the cache is cleaned after an
\* odds frame, and oddsInFlight is cleared in either case
OddsPollReturns ==
    /\ oddsPoll.stage \in {"broadcast", "error"}
    /\ oddsCache' = IF oddsPoll.stage = "broadcast"
                    THEN cleanOddsCache(oddsCache, now) ELSE oddsCache
    /\ oddsPoll' = [stage |-> "idle", now |-> 0]
    /\ oddsInFlight' = FALSE
    /\ UNCHANGED <<now, oddsAwait, oddsGameIds, oddsCursor, oddsChunk, oddsFrame>>
    /\ OnlyPre

\* handlePrematchFeaturedOddsEmit up to the await of its broadcast; fps:
\* the games of the emission and the fingerprints of their odds
handlePrematchFeaturedOddsEmit(fps) ==
    /\ DOMAIN fps /= {}
    /\ LET written == WriteEntries(oddsCache, fps, DOMAIN fps, now)
           updates == Updates(oddsCache, fps)
       IN IF updates /= {}
          THEN /\ oddsAwait < PreAwaits
               /\ oddsAwait' = oddsAwait + 1
               /\ oddsFrame' = updates
               /\ oddsCache' = written
          ELSE /\ oddsAwait' = oddsAwait
               /\ oddsFrame' = oddsFrame
               /\ oddsCache' = cleanOddsCache(written, now)
    /\ UNCHANGED <<now, oddsGameIds, oddsCursor, oddsInFlight, oddsChunk, oddsPoll>>
    /\ OnlyPre

PreTick ==
    /\ now < PreClock
    /\ now' = now + 1
    /\ UNCHANGED <<cacheVars, preVars>>
    /\ OnlyPre

InitPre == InitSession(0, 0, 0, FALSE)

NextPre ==
    \/ \E ids \in SUBSET (1..PreGames) : pollSportGroup(ids)
    \/ pollSportOddsGroup
    \/ \E ids \in SUBSET {oddsChunk[i] : i \in DOMAIN oddsChunk} :
          \E fps \in [ids -> 0..CacheFps] : OddsChunkAnswered(fps)
    \/ OddsChunkFails
    \/ OddsPollReturns
    \/ \E ids \in SUBSET (1..PreGames) : \E fps \in [ids -> 0..CacheFps] :
          handlePrematchFeaturedOddsEmit(fps)
    \/ OddsBroadcastReturns
    \/ PreTick

SpecPre == InitPre /\ [][NextPre]_vars

\* the odds request of a poll names at most ODDS_CHUNK_SIZE games
OddsRequestBounded == Len(oddsChunk) <= ODDS_CHUNK_SIZE

\* C20: an odds frame broadcast to the subscribers of a prematch sport
\* group carries at most ODDS_CHUNK_SIZE gameIds, and an odds request of
\* the poll names at most ODDS_CHUNK_SIZE game ids
OddsFrameAndRequestBounded ==
    /\ Cardinality(oddsFrame) <= ODDS_CHUNK_SIZE
    /\ Len(oddsChunk) <= ODDS_CHUNK_SIZE

(***************************************************************************)
(* The accumulated state of a subscription                                 *)
(*                                                                         *)
(* A JSON value is a record of its kind and its content.  An object is a   *)
(* function over JKeys that gives Absent for the keys it does not hold.    *)
(* The state of a subscription is the document of the subscribe reply, as  *)
(* it came; every delta of a frame is merged into it under the key data.   *)
(***************************************************************************)
JKeys == <<"a", "b", "data">>   \* the keys of the documents, in the order of Object.entries
LeafNums == 2                   \* scalars 1..LeafNums

Absent == [t |-> "absent", v |-> 0]
NoDoc == [t |-> "none", v |-> 0]
JNull == [t |-> "null", v |-> 0]
JNum(n) == [t |-> "num", v |-> n]
JArr(seq) == [t |-> "arr", v |-> seq]
JObj(f) == [t |-> "obj", v |-> f]
EmptyObj == [k \in {"a", "b", "data"} |-> Absent]

OnlyMerge ==
    UNCHANGED <<scope, emitVars, sessVars, oldVars, trackerVars, metricsVars, hierVars,
                oddsVars, pairVars, lateVars>>

\* the values a document holds: scalars, one sequence, null, and mappings
\* two levels deep (key a may hold a mapping, key b holds a leaf)
Leaves == {JNull, JArr(<<1>>)} \cup {JNum(n) : n \in 1..LeafNums}
InnerObjs ==
    {JObj([EmptyObj EXCEPT !["a"] = x, !["b"] = y]) :
        x \in Leaves \cup {Absent}, y \in Leaves \cup {Absent}}
OuterObjs ==
    {JObj([EmptyObj EXCEPT !["a"] = x, !["b"] = y]) :
        x \in Leaves \cup InnerObjs \cup {Absent}, y \in Leaves \cup {Absent}}
Deltas == Leaves \cup OuterObjs

\* a merge that lets a sub-mapping of the patch replace the entry
deepMergeShallow(target, patch) ==
    IF patch.t /= "obj" THEN target
    ELSE [k \in {"a", "b", "data"} |->
             IF patch.v[k].t = "absent" THEN target[k]
             ELSE IF patch.v[k].t = "null" THEN Absent ELSE patch.v[k]]

\* deepMerge: the loop over the entries of the patch
RECURSIVE deepMerge(_, _), MergeEntries(_, _, _)
MergeEntries(target, p, ks) ==
    IF ks = <<>> THEN target
    ELSE LET k == Head(ks)
             v == p[k]
             cur == target[k]
             next ==
                 IF v.t = "absent" THEN target
                 ELSE IF v.t = "null" THEN [target EXCEPT ![k] = Absent]
                 ELSE IF v.t = "arr" THEN [target EXCEPT ![k] = v]
                 ELSE IF v.t = "obj"
                      THEN [target EXCEPT ![k] =
                               JObj(deepMerge(IF cur.t = "obj" THEN cur.v ELSE EmptyObj, v))]
                      ELSE [target EXCEPT ![k] = v]
         IN MergeEntries(next, p, Tail(ks))

deepMerge(target, patch) ==
    IF patch.t /= "obj" THEN target ELSE MergeEntries(target, patch.v, JKeys)

\* the branches of deepMerge a patch takes on a target
RECURSIVE Branches(_, _)
Branches(target, p) ==
    UNION {LET v == p[k]
               cur == target[k]
           IN IF v.t = "absent" THEN {}
              ELSE IF v.t = "null" THEN (IF cur.t = "absent" THEN {} ELSE {"delete"})
              ELSE IF v.t = "arr" THEN {"sequence"}
              ELSE IF v.t = "obj"
                   THEN (IF cur.t = "obj" THEN {"merge"} ELSE {"fresh"})
                            \cup Branches(IF cur.t = "obj" THEN cur.v ELSE EmptyObj, v.v)
                   ELSE {"scalar"}
           : k \in {"a", "b", "data"}}

\* subscribeGet: the document of the reply becomes the state as it is
subscribeGet(initial) ==
    /\ subState = NoDoc
    /\ subState' = JObj([EmptyObj EXCEPT !["data"] = initial])
    /\ UNCHANGED <<inbound, mergeSeen>>
    /\ OnlyMerge

\* a frame with rid 0 and a delta for the subscription arrives
DeltaArrives(delta) ==
    /\ subState /= NoDoc
    /\ inbound = NoDoc
    /\ inbound' = delta
    /\ UNCHANGED <<subState, mergeSeen>>
    /\ OnlyMerge

\* handleSubscriptionDelta
handleSubscriptionDelta ==
    /\ inbound /= NoDoc
    /\ LET patch == JObj([EmptyObj EXCEPT !["data"] = inbound]) IN
       /\ subState' = JObj(deepMerge(subState.v, patch))
       /\ mergeSeen' = Branches(subState.v, patch.v)
    /\ inbound' = NoDoc
    /\ OnlyMerge

InitMerge == InitSession(0, 0, 0, FALSE)

NextMerge ==
    \/ \E initial \in Deltas \cup {Absent} : subscribeGet(initial)
    \/ \E delta \in Deltas : DeltaArrives(delta)
    \/ handleSubscriptionDelta

SpecMerge == InitMerge /\ [][NextMerge]_vars

\* what the merge of a patch into a mapping is to give, key by key
RECURSIVE Obeys(_, _, _)
Obeys(before, p, after) ==
    \A k \in {"a", "b", "data"} :
        LET v == p[k] IN
        CASE v.t = "absent" -> after[k] = before[k]
          [] v.t = "null" -> after[k] = Absent
          [] v.t \in {"arr", "num"} -> after[k] = v
          [] v.t = "obj" ->
                /\ after[k].t = "obj"
                /\ Obeys(IF before[k].t = "obj" THEN before[k].v ELSE EmptyObj,
                         v.v, after[k].v)

\* C21: the state after a delta is the state before it with, for each key
\* of the delta, the entry deleted by a null, replaced by a sequence or a
\* scalar, merged key by key with a sub-mapping; the other keys are as
\* before
MergeObeysRules ==
    [][(inbound /= NoDoc /\ inbound' = NoDoc)
          => /\ subState'.t = "obj"
             /\ Obeys(subState.v, [EmptyObj EXCEPT !["data"] = inbound], subState'.v)]_vars

\* a delta has deleted an entry, replaced one by a sequence and one by a
\* scalar, and merged a sub-mapping into a mapping
MergeRulesReached == {"delete", "sequence", "scalar", "merge"} \subseteq mergeSeen

\* a document that holds no null, at any depth
RECURSIVE NullFree(_)
NullFree(x) ==
    /\ x.t /= "null"
    /\ x.t = "obj" => \A k \in {"a", "b", "data"} : NullFree(x.v[k])

\* a delta equal to the state leaves a state without nulls as it is
MergeIdempotentWithoutNulls ==
    [][(inbound /= NoDoc /\ inbound' = NoDoc /\ inbound = subState.v["data"]
           /\ NullFree(subState))
          => subState' = subState]_vars

\* C22: a delta equal to the accumulated state leaves the state as it is
MergeIdempotent ==
    [][(inbound /= NoDoc /\ inbound' = NoDoc /\ inbound = subState.v["data"])
          => subState' = subState]_vars

(***************************************************************************)
(* The live-tracker proxy (LiveTrackerDO)                                  *)
(*                                                                         *)
(* One proxy serves the subscribers of one game from one upstream socket.  *)
(* The metrics reports of the proxy are left out.                          *)
(***************************************************************************)
OnlyTracker ==
    UNCHANGED <<scope, emitVars, sessVars, oldVars, mergeVars, metricsVars, hierVars,
                oddsVars, pairVars, lateVars>>

TrackerUnused == {x \in DOMAIN trackerSock : trackerSock[x] = "unused"}

\* fetch: the subscriber joins, the heartbeat is started, and the first
\* subscriber calls ensureUpstream, which runs to the await of its ready
\* broadcast
TrackerAttach ==
    /\ trackerNextId <= TrackerIds
    /\ trackerClients' = trackerClients \cup {trackerNextId}
    /\ trackerNextId' = trackerNextId + 1
    /\ heartbeatTimer' = TRUE
    /\ IF trackerClients = {} /\ ~upstreamConnected /\ ~upstreamConnecting
       THEN /\ TrackerUnused /= {}
            /\ LET x == Min(TrackerUnused) IN
               /\ trackerSock' = [trackerSock EXCEPT ![x] = "connecting"]
               /\ upstream' = x
            /\ upstreamConnecting' = TRUE
            /\ readyPending' = readyPending + 1
       ELSE UNCHANGED <<trackerSock, upstream, upstreamConnecting, readyPending>>
    /\ UNCHANGED <<upstreamConnected, pinging>>
    /\ OnlyTracker

\* the ready broadcast of ensureUpstream has returned: its finally
ReadyReturns ==
    /\ readyPending > 0
    /\ readyPending' = readyPending - 1
    /\ upstreamConnecting' = FALSE
    /\ UNCHANGED <<trackerClients, trackerNextId, heartbeatTimer, upstream,
                   upstreamConnected, pinging, trackerSock>>
    /\ OnlyTracker

\* the 'abort' listener of a subscriber's request
TrackerAbort(c) ==
    /\ c \in trackerClients
    /\ trackerClients' = trackerClients \ {c}
    /\ UNCHANGED <<trackerNextId, heartbeatTimer, upstream, upstreamConnected,
                   upstreamConnecting, readyPending, pinging, trackerSock>>
    /\ OnlyTracker

\* the 'open' listener of a socket
TrackerOpens(x) ==
    /\ trackerSock[x] = "connecting"
    /\ trackerSock' = [trackerSock EXCEPT ![x] = "open"]
    /\ upstreamConnected' = TRUE
    /\ UNCHANGED <<trackerClients, trackerNextId, heartbeatTimer, upstream,
                   upstreamConnecting, readyPending, pinging>>
    /\ OnlyTracker

\* the 'close' listener of a socket: the connect has failed, the peer has
\* closed, or a close() has completed
TrackerCloses(x) ==
    /\ trackerSock[x] \in {"connecting", "open", "closing"}
    /\ trackerSock' = [trackerSock EXCEPT ![x] = "closed"]
    /\ upstreamConnected' = FALSE
    /\ upstream' = 0
    /\ upstreamConnecting' = FALSE
    /\ UNCHANGED <<trackerClients, trackerNextId, heartbeatTimer, readyPending, pinging>>
    /\ OnlyTracker

\* closeUpstream
closeUpstream(socks) ==
    IF upstream = 0 THEN socks
    ELSE [socks EXCEPT ![upstream] =
             IF @ \in {"connecting", "open"} THEN "closing" ELSE @]

\* the callback of the heartbeat interval
HeartbeatTick ==
    /\ heartbeatTimer
    /\ pinging' = pinging \cup trackerClients
    /\ IF trackerClients = {}
       THEN /\ heartbeatTimer' = FALSE
            /\ trackerSock' = closeUpstream(trackerSock)
            /\ upstream' = 0
            /\ upstreamConnected' = IF upstream = 0 THEN upstreamConnected ELSE FALSE
            /\ upstreamConnecting' = IF upstream = 0 THEN upstreamConnecting ELSE FALSE
       ELSE UNCHANGED <<heartbeatTimer, trackerSock, upstream, upstreamConnected,
                        upstreamConnecting>>
    /\ UNCHANGED <<trackerClients, trackerNextId, readyPending>>
    /\ OnlyTracker

\* a write of a broadcast settles: a subscriber whose write was rejected is
\* removed at the end of the broadcast
TrackerWriteSettles(c, ok) ==
    /\ c \in pinging
    /\ pinging' = pinging \ {c}
    /\ trackerClients' = IF ok THEN trackerClients ELSE trackerClients \ {c}
    /\ UNCHANGED <<trackerNextId, heartbeatTimer, upstream, upstreamConnected,
                   upstreamConnecting, readyPending, trackerSock>>
    /\ OnlyTracker

InitTracker == InitSession(0, 0, 0, FALSE)

NextTracker ==
    \/ TrackerAttach
    \/ ReadyReturns
    \/ \E c \in 1..TrackerIds : TrackerAbort(c)
    \/ \E x \in 1..TrackerSocks : TrackerOpens(x)
    \/ \E x \in 1..TrackerSocks : TrackerCloses(x)
    \/ HeartbeatTick
    \/ \E c \in 1..TrackerIds : \E ok \in BOOLEAN : TrackerWriteSettles(c, ok)

SpecTracker == InitTracker /\ [][NextTracker]_vars

\* C23: when the heartbeat has seen the subscriber set empty and has
\* stopped, no upstream socket of the proxy is open or connecting
TrackerUpstreamClosed ==
    (~heartbeatTimer /\ trackerClients = {})
        => \A x \in DOMAIN trackerSock : trackerSock[x] \notin {"connecting", "open"}

(***************************************************************************)
(* The metrics aggregator (HealthMetricsDO)                                *)
(*                                                                         *)
(* The proxies report their subscribers and their upstream state; each     *)
(* report renews the lease of its game.  A rollup read prunes the leases   *)
(* and counts the ones that are left.  The message totals and the buckets  *)
(* of the last 60 s, which no lease depends on, are left out.              *)
(***************************************************************************)
NoLease == [sse_clients |-> 0, upstream_connected |-> FALSE, expires_at_ms |-> -1]

OnlyMetrics ==
    UNCHANGED <<scope, emitVars, sessVars, cacheVars, ringVars, lifeVars, preVars,
                mergeVars, trackerVars, hierVars, oddsVars, pairVars, lateVars>>

\* a pruning that removes nothing
pruneNothing(ls, nowMs) == ls

\* pruneLeases: the leases that are left
pruneLeases(ls, nowMs) ==
    [g \in DOMAIN ls |->
        IF ls[g] /= NoLease /\ ls[g].expires_at_ms <= nowMs THEN NoLease ELSE ls[g]]

\* the loop of buildRollups over Object.values(this.leases), from game g on
RECURSIVE CountLeases(_, _, _)
CountLeases(ls, g, acc) ==
    IF g > MetricsGames THEN acc
    ELSE IF ls[g] = NoLease THEN CountLeases(ls, g + 1, acc)
    ELSE CountLeases(ls, g + 1,
             [active_games |->
                  acc.active_games + (IF ls[g].sse_clients > 0 THEN 1 ELSE 0),
              active_sse_clients |-> acc.active_sse_clients + ls[g].sse_clients,
              upstream_ws_connected_games |->
                  acc.upstream_ws_connected_games
                      + (IF ls[g].upstream_connected THEN 1 ELSE 0)])

\* GET /live-tracker-rollups
buildRollups ==
    /\ served < MetricsRequests
    /\ served' = served + 1
    /\ LET kept == pruneLeases(leases, now)
           sums == CountLeases(kept, 1, [active_games |-> 0, active_sse_clients |-> 0,
                                         upstream_ws_connected_games |-> 0])
       IN /\ leases' = kept
          /\ dirty' = (dirty \/ kept /= leases)
          /\ prunedOnRead' = {g \in DOMAIN leases : kept[g] /= leases[g]}
          /\ response' = [kind |-> "rollups",
                          active_games |-> sums.active_games,
                          active_sse_clients |-> sums.active_sse_clients,
                          upstream_ws_connected_games |-> sums.upstream_ws_connected_games]
    /\ now' = now
    /\ OnlyMetrics

\* POST /report; sse and up: the fields of the body, -1 and "none" for a
\* field the body does not hold
handleReport(gameId, sse, up, leaseTtlMs) ==
    /\ served < MetricsRequests
    /\ served' = served + 1
    /\ LET existing == IF leases[gameId] /= NoLease THEN leases[gameId]
                       ELSE [NoLease EXCEPT !.expires_at_ms = now + leaseTtlMs]
           renewed == [sse_clients |-> IF sse >= 0 THEN sse ELSE existing.sse_clients,
                       upstream_connected |->
                           IF up = "none" THEN existing.upstream_connected ELSE up = "yes",
                       expires_at_ms |-> now + leaseTtlMs]
       IN leases' = pruneLeases([leases EXCEPT ![gameId] = renewed], now)
    /\ dirty' = TRUE
    /\ response' = [kind |-> "ok"]
    /\ UNCHANGED <<now, prunedOnRead>>
    /\ OnlyMetrics

\* alarm: flush
MetricsAlarm ==
    /\ dirty
    /\ dirty' = FALSE
    /\ UNCHANGED <<now, leases, served, response, prunedOnRead>>
    /\ OnlyMetrics

MetricsTick ==
    /\ now < MetricsClock
    /\ now' = now + 1
    /\ UNCHANGED metricsVars
    /\ OnlyMetrics

InitMetrics == InitSession(0, 0, 0, FALSE)

NextMetrics ==
    \/ buildRollups
    \/ \E gameId \in 1..MetricsGames : \E sse \in -1..MetricsSse :
          \E up \in {"none", "yes", "no"} : \E leaseTtlMs \in 1..MetricsTtl :
             handleReport(gameId, sse, up, leaseTtlMs)
    \/ MetricsAlarm
    \/ MetricsTick

SpecMetrics == InitMetrics /\ [][NextMetrics]_vars

\* the games whose lease expires after time t
Unexpired(ls, t) == {g \in DOMAIN ls : ls[g] /= NoLease /\ ls[g].expires_at_ms > t}

RECURSIVE SumSse(_, _)
SumSse(ls, gs) ==
    IF gs = {} THEN 0
    ELSE LET g == Min(gs) IN ls[g].sse_clients + SumSse(ls, gs \ {g})

\* C24: a rollup read counts the leases that expire after the time of the
\* read and no other, and leaves no other lease in the table
RollupsCountUnexpired ==
    [][(served' = served + 1 /\ response'.kind = "rollups")
          => LET live == Unexpired(leases, now) IN
             /\ response'.active_games
                   = Cardinality({g \in live : leases[g].sse_clients > 0})
             /\ response'.active_sse_clients = SumSse(leases, live)
             /\ response'.upstream_ws_connected_games
                   = Cardinality({g \in live : leases[g].upstream_connected})
             /\ \A g \in DOMAIN leases :
                   leases'[g] = IF g \in live THEN leases[g] ELSE NoLease]_vars

\* a rollup read has removed a lease that had subscribers and has counted
\* another
RollupPrunedReached ==
    /\ response.kind = "rollups"
    /\ prunedOnRead /= {}
    /\ response.active_sse_clients > 0

(***************************************************************************)
(* The hierarchy cache                                                     *)
(*                                                                         *)
(* A document of the feed is its version and the number of its sports.  A  *)
(* call of getHierarchy reads the storage and answers from it or from a    *)
(* refresh; a refresh asks the feed once, and once more when the reply     *)
(* holds no sport.  A storage operation lets no other event in.            *)
(***************************************************************************)
HierTtl == 1         \* ttlMs, 30 minutes, in ticks

NoCache == [cachedAtMs |-> -1, data |-> [ver |-> 0, sports |-> 0]]

FeedDocs == [ver : 1..HierDocs, sports : 0..HierSports]

\* the refresh has thrown
Thrown == [ver |-> -1, sports |-> 0]

OnlyHier ==
    UNCHANGED <<scope, emitVars, sessVars, cacheVars, ringVars, lifeVars, preVars,
                mergeVars, trackerVars, metricsVars, oddsVars, pairVars, lateVars>>

\* cacheValid, and the same test of the previous entry in the refresh
HasSports(entry) == entry /= NoCache /\ entry.data.sports > 0

\* a refresh that stores the empty document it was answered with
StoreEmptyReply(store, data, t) ==
    [store |-> [cachedAtMs |-> t, data |-> data], result |-> data]

\* refreshHierarchyCache when both replies hold no sport
KeepPrevious(store, data, t) ==
    [store |-> store,
     result |-> IF HasSports(store) THEN store.data ELSE Thrown]

\* getHierarchy up to its answer or to the first request of its refresh
getHierarchy(c, forceRefresh) ==
    /\ hierCalls[c].pc = "unused"
    /\ \A d \in 1..(c - 1) : hierCalls[d].pc /= "unused"
    /\ LET cached == hierStore
           usable == ~forceRefresh /\ HasSports(cached)
       IN hierCalls' = [hierCalls EXCEPT ![c] =
              IF usable /\ now - cached.cachedAtMs <= HierTtl
              THEN [@ EXCEPT !.pc = "done", !.returned = cached.data]
              ELSE IF usable
                   THEN [@ EXCEPT !.pc = "req1", !.background = TRUE,
                                  !.returned = cached.data]
                   ELSE [@ EXCEPT !.pc = "req1"]]
    /\ UNCHANGED <<now, hierStore>>
    /\ OnlyHier

\* what a refresh that has ended gives its caller
Ended(call, result) ==
    [call EXCEPT !.pc = "done", !.result = result,
                 !.returned = IF call.background THEN @ ELSE result]

\* the reply of the first request of a refresh
HierReply1(c, data) ==
    /\ hierCalls[c].pc = "req1"
    /\ IF data.sports > 0
       THEN /\ hierStore' = [cachedAtMs |-> now, data |-> data]
            /\ hierCalls' = [hierCalls EXCEPT ![c] = Ended(@, data)]
       ELSE /\ hierStore' = hierStore
            /\ hierCalls' = [hierCalls EXCEPT ![c].pc = "req2"]
    /\ now' = now
    /\ OnlyHier

\* the reply of the second request
HierReply2(c, data) ==
    /\ hierCalls[c].pc = "req2"
    /\ IF data.sports > 0
       THEN /\ hierStore' = [cachedAtMs |-> now, data |-> data]
            /\ hierCalls' = [hierCalls EXCEPT ![c] = Ended(@, data)]
       ELSE LET kept == KeepPrevious(hierStore, data, now) IN
            /\ hierStore' = kept.store
            /\ hierCalls' = [hierCalls EXCEPT
                                ![c] = Ended([@ EXCEPT !.zero = TRUE], kept.result)]
    /\ now' = now
    /\ OnlyHier

\* ensureConnection or a request of the refresh is rejected
HierRefreshFails(c) ==
    /\ hierCalls[c].pc \in {"req1", "req2"}
    /\ hierCalls' = [hierCalls EXCEPT ![c] = Ended(@, Thrown)]
    /\ UNCHANGED <<now, hierStore>>
    /\ OnlyHier

HierTick ==
    /\ now < HierClock
    /\ now' = now + 1
    /\ UNCHANGED hierVars
    /\ OnlyHier

InitHier == InitSession(0, 0, 0, FALSE)

NextHier ==
    \/ \E c \in 1..HierCalls : \E forceRefresh \in BOOLEAN : getHierarchy(c, forceRefresh)
    \/ \E c \in 1..HierCalls : \E data \in FeedDocs : HierReply1(c, data)
    \/ \E c \in 1..HierCalls : \E data \in FeedDocs : HierReply2(c, data)
    \/ \E c \in 1..HierCalls : HierRefreshFails(c)
    \/ HierTick

SpecHier == InitHier /\ [][NextHier]_vars

Expired(entry, t) == t - entry.cachedAtMs > HierTtl

\* C25: a refresh that is answered with no sport while the storage holds an
\* expired document with sports leaves the storage as it is and gives that
\* document, which the caller that awaits the refresh receives; a caller
\* that is answered before the refresh receives the document of the storage
EmptyRefreshKeepsCache ==
    [][\A c \in 1..HierCalls :
          /\ (/\ hierCalls[c].pc = "req2"
               /\ hierCalls'[c].pc = "done"
               /\ hierCalls'[c].zero
               /\ HasSports(hierStore)
               /\ Expired(hierStore, now))
                 => /\ hierStore' = hierStore
                    /\ hierCalls'[c].result = hierStore.data
                    /\ ~hierCalls[c].background
                          => hierCalls'[c].returned = hierStore.data
          /\ (hierCalls[c].pc = "unused" /\ hierCalls'[c].background)
                 => hierCalls'[c].returned = hierStore.data]_vars

\* a refresh was answered with no sport while the storage held an expired
\* document with sports, for a call that awaited it
EmptyRefreshReached ==
    \E c \in 1..HierCalls :
        /\ hierCalls[c].pc = "done"
        /\ hierCalls[c].zero
        /\ ~hierCalls[c].background
        /\ hierCalls[c].result /= Thrown
        /\ HasSports(hierStore)
        /\ Expired(hierStore, now)

(***************************************************************************)
(* The odds of a market                                                    *)
(*                                                                         *)
(* An event of a market is its type and its order; the type "DRAW" stands  *)
(* for an event of another type whose name is x or holds "draw", "OTHER"   *)
(* for any other event.  An id with the type "none" has no event.          *)
(***************************************************************************)
NoEvent == [type |-> "none", order |-> 0]

EventTypes == {"P1", "P2", "X", "DRAW", "OTHER"}

Markets ==
    [1..MarketEvents -> {NoEvent} \cup [type : EventTypes, order : 1..MarketOrders]]

OnlyOdds ==
    UNCHANGED <<scope, emitVars, sessVars, oldVars, mergeVars, trackerVars,
                metricsVars, hierVars, pairVars, lateVars>>

mapEventLabel(e) ==
    IF e.type = "P1" THEN "1"
    ELSE IF e.type = "P2" THEN "2"
    ELSE IF e.type \in {"X", "DRAW"} THEN "X"
    ELSE ""

\* the events of a market sorted by their order and then by their id
RECURSIVE SortedEvents(_, _)
SortedEvents(m, ids) ==
    IF ids = {} THEN <<>>
    ELSE LET first == CHOOSE i \in ids : \A j \in ids :
                          \/ m[i].order < m[j].order
                          \/ (m[i].order = m[j].order /\ i <= j)
         IN <<m[first]>> \o SortedEvents(m, ids \ {first})

buildOddsArrFromMarket(m) ==
    LET ordered == SortedEvents(m, {i \in DOMAIN m : m[i] /= NoEvent})
        n == Len(ordered)
        odds == [idx \in 1..n |->
                    IF mapEventLabel(ordered[idx]) /= "" THEN mapEventLabel(ordered[idx])
                    ELSE IF n = 2 THEN (IF idx = 1 THEN "1" ELSE "2")
                    ELSE (IF idx = 1 THEN "1" ELSE IF idx = 2 THEN "X" ELSE "2")]
    IN IF n \in {2, 3} THEN [built |-> TRUE, labels |-> odds]
       ELSE [built |-> TRUE, labels |-> <<>>]

\* the market of a game arrives in a reply or an emission; a behaviour
\* follows one market
MarketArrives(m) ==
    /\ \A i \in DOMAIN market : market[i] = NoEvent
    /\ market' = m
    /\ oddsArr' = [built |-> FALSE, labels |-> <<>>]
    /\ OnlyOdds

\* an odds handler builds the odds of the market
BuildOdds ==
    /\ ~oddsArr.built
    /\ oddsArr' = buildOddsArrFromMarket(market)
    /\ market' = market
    /\ OnlyOdds

InitOdds == InitSession(0, 0, 0, FALSE)

NextOdds ==
    \/ (\A i \in DOMAIN market : market[i] = NoEvent) /\ \E m \in Markets : MarketArrives(m)
    \/ BuildOdds

SpecOdds == InitOdds /\ [][NextOdds]_vars

\* an odds sequence is produced for the markets of two or three events only
OddsLengthTwoOrThree ==
    oddsArr.built =>
        (oddsArr.labels /= <<>>
            <=> Cardinality({i \in DOMAIN market : market[i] /= NoEvent}) \in {2, 3})

\* C26: an odds sequence that is produced has the labels 1, 2 or the labels
\* 1, X, 2, in that order
OddsLabelsExact ==
    (oddsArr.built /\ oddsArr.labels /= <<>>)
        => oddsArr.labels \in {<<"1", "2">>, <<"1", "X", "2">>}

\* C27: a group of the table whose subscriber set is empty has its grace
\* timer running, whether the last subscriber left by the abort of its
\* request or was removed by a broadcast after a failed write
EmptyGroupHasGraceTimer ==
    \A k \in Keys :
        (grp[k].inTable /\ grp[k].clients = {}) => grp[k].cleanupTimer >= 0

\* C28: once a write to a subscriber has failed in a broadcast, that broadcast
\* writes to no one else while the subscriber is still in the Map, and no other
\* broadcast under way has attempted a write to the same subscriber
FailedSinkLeftAlone ==
    \A j \in jobs : \A c \in j.failed :
        /\ ~(c \in clients[j.stream] /\ j.last > c /\ j.ticket > 0)
        /\ \A k \in jobs \ {j} : c \notin k.failed

(***************************************************************************)
(* The passes of the odds handlers over a cache of pairs                   *)
(*                                                                         *)
(* An entry holds the fingerprint of the game's market and its             *)
(* markets_count apart.  Fingerprint 0 is the '' of a game without a       *)
(* market, for which buildOddsArrFromMarket returns null.  Two handlers    *)
(* pass over a cache: handleCompetitionOddsEmit, whose loop is that of the  *)
(* other emitters of the hub, and pollSportOddsGroup as it stands in       *)
(* workers/src/durable/SwarmHubDO.ts.  The cache is that of one group, so  *)
(* the passes of a behaviour are all made by one of the two.               *)
(***************************************************************************)
OnlyPair ==
    UNCHANGED <<scope, emitVars, sessVars, ringVars, lifeVars, preVars, mergeVars,
                trackerVars, metricsVars, hierVars, oddsVars, lateVars>>

NoGame == [fp |-> -1, markets_count |-> -1]

\* the games of an emission: at least one, each with its pair
PairInputs ==
    [1..PairGames -> {NoGame} \cup [fp : 0..PairFps, markets_count : 0..PairCounts]]
        \ {[g \in 1..PairGames |-> NoGame]}

GamesOf(games) == {g \in DOMAIN games : games[g] /= NoGame}

\* group.oddsCache.get(idStr), for a game that has an entry
Prev(cache, g) == cache[CHOOSE i \in DOMAIN cache : cache[i].id = g]

\* shouldEmit of the emitters; every entry holds a number as markets_count
shouldEmit(cache, g, fp, marketsCount) ==
    \/ g \notin CacheIds(cache)
    \/ Prev(cache, g).fp /= fp
    \/ Prev(cache, g).markets_count /= marketsCount

\* the test of pollSportOddsGroup in SwarmHubDO.ts: !prev || prev.fp !== fp
FpDiffers(cache, g, fp) ==
    \/ g \notin CacheIds(cache)
    \/ Prev(cache, g).fp /= fp

\* the loop over the games, in the order of their ids; byFp: the loop of
\* SwarmHubDO.ts, which pushes a game only when its odds are a sequence
RECURSIVE PassOver(_, _, _, _, _)
PassOver(acc, games, ids, t, byFp) ==
    IF ids = {} THEN acc
    ELSE LET g == Min(ids)
             in == games[g]
             emit == IF byFp THEN FpDiffers(acc.cache, g, in.fp)
                     ELSE shouldEmit(acc.cache, g, in.fp, in.markets_count)
             entry == IF emit
                      THEN [id |-> g, fp |-> in.fp, markets_count |-> in.markets_count,
                            updatedAtMs |-> t]
                      ELSE [Prev(acc.cache, g) EXCEPT !.updatedAtMs = t,
                                                      !.markets_count = in.markets_count]
             pushed == emit /\ (byFp => in.fp /= 0)
         IN PassOver([cache |-> CacheSet(acc.cache, entry),
                      updates |-> IF pushed THEN acc.updates \cup {g} ELSE acc.updates],
                     games, ids \ {g}, t, byFp)

\* handleCompetitionOddsEmit from its Date.now() to its await: without
\* updates it returns at once, with updates the cache is cleaned when the
\* broadcast has returned
handleCompetitionOddsEmit(games) ==
    /\ passes < PairPasses
    /\ passBy \in {"none", "competition"}
    /\ LET r == PassOver([cache |-> oddsCache, updates |-> {}], games,
                         GamesOf(games), now, FALSE) IN
       /\ oddsCache' = r.cache
       /\ oddsUpdates' = r.updates
       /\ IF r.updates = {}
          THEN oddsAwait' = oddsAwait
          ELSE oddsAwait < CacheAwaits /\ oddsAwait' = oddsAwait + 1
    /\ oddsGames' = games
    /\ passes' = passes + 1
    /\ passBy' = "competition"
    /\ now' = now
    /\ OnlyPair

\* pollSportOddsGroup of SwarmHubDO.ts, from the answer to its odds request
\* on: nothing is done to the cache after the broadcast
OddsChunkAnsweredByFp(games) ==
    /\ passes < PairPasses
    /\ passBy \in {"none", "poll"}
    /\ LET r == PassOver([cache |-> oddsCache, updates |-> {}], games,
                         GamesOf(games), now, TRUE) IN
       /\ oddsCache' = r.cache
       /\ oddsUpdates' = r.updates
    /\ oddsGames' = games
    /\ passes' = passes + 1
    /\ passBy' = "poll"
    /\ UNCHANGED <<now, oddsAwait>>
    /\ OnlyPair

InitPair == InitSession(0, 0, 0, FALSE)

NextPair ==
    \/ (passes < PairPasses /\ passBy /= "poll"
            /\ \E games \in PairInputs : handleCompetitionOddsEmit(games))
    \/ (passes < PairPasses /\ passBy /= "competition"
            /\ \E games \in PairInputs : OddsChunkAnsweredByFp(games))
    \/ OddsBroadcastReturns
    \/ CacheTick

SpecPair == InitPair /\ [][NextPair]_vars

PairOf(e) == <<e.fp, e.markets_count>>

\* what the rule asks of the pass a step makes: a game of the emission is in
\* the updates exactly when it had no entry or its pair differs from the
\* entry's, and the entry of a game left out differs from the one before in
\* its timestamp only
RuleKept ==
    passes' = passes + 1 =>
        \A g \in GamesOf(oddsGames') :
            /\ g \in oddsUpdates' <=>
                  (g \notin CacheIds(oddsCache)
                      \/ PairOf(Prev(oddsCache, g))
                             /= <<oddsGames'[g].fp, oddsGames'[g].markets_count>>)
            /\ g \notin oddsUpdates' =>
                  /\ g \in CacheIds(oddsCache)
                  /\ Prev(oddsCache', g) = [Prev(oddsCache, g) EXCEPT !.updatedAtMs = now]

\* the passes of handleCompetitionOddsEmit keep the rule
EmittersKeepRule == [][passBy' = "competition" => RuleKept]_vars

\* C29: an odds frame holds a game exactly when the game has no cache entry
\* or its pair of fingerprint and markets_count differs from the cached one;
\* a game left out has only the timestamp of its entry refreshed
OddsFrameIffPairChanged == [][RuleKept]_vars

\* C30: when a pass of handleCompetitionOddsEmit has ended, by its return
\* while no other handler is suspended or by the return of its broadcast, no
\* entry of the cache is older than the TTL
NoExpiredEntryAfterPass ==
    [][(passBy' = "competition"
           /\ \/ (passes' = passes + 1 /\ oddsAwait' = 0)
              \/ oddsAwait' < oddsAwait)
          => \A i \in DOMAIN oddsCache' : IsFresh(oddsCache'[i], now')]_vars


(***************************************************************************)
(* A live sport group and its subscriptions                                *)
(*                                                                         *)
(* The group of one sport id: its subscribers, its poll interval, its      *)
(* grace timer and its games and odds subscriptions.  The upstream is      *)
(* connected; the feed accepts or rejects each subscribe.  A poll changes  *)
(* the payloads of the group, which this part leaves out.  The callbacks   *)
(* set by setTimeout(..., 0) run before the grace timer fires.             *)
(***************************************************************************)
earlyVars == <<scope, emitVars, sessVars, oldVars, mergeVars, trackerVars, metricsVars,
               hierVars, oddsVars, pairVars>>

OnlySport == UNCHANGED <<earlyVars, stopVars, prioVars, flushVars, uiVars>>

\* the group object handleSportStream creates when the table has none
NewSportGroup(epoch) ==
    [inTable |-> TRUE, epoch |-> epoch, clients |-> 0, timer |-> FALSE,
     cleanupTimer |-> FALSE, gamesSubid |-> 0, gamesSubscribing |-> FALSE,
     oddsSubid |-> 0, oddsSubscribing |-> FALSE]

\* startSportGroup(group) of a live group: the group it leaves and the
\* callbacks it sets
startSportGroup(g) ==
    [group |-> [g EXCEPT !.cleanupTimer = FALSE, !.timer = TRUE],
     tasks |-> (IF g.gamesSubid = 0 /\ ~g.gamesSubscribing THEN <<"ensureGames">> ELSE <<>>)
               \o (IF g.oddsSubid = 0 /\ ~g.oddsSubscribing THEN <<"ensureOdds">> ELSE <<>>)]

stopSportGroup(g) == [g EXCEPT !.timer = FALSE]

\* pollSportGroup(group), as far as the group's timers go
sportPoll(g) == IF g.clients = 0 THEN stopSportGroup(g) ELSE g

\* handleSportStream(request, 'live')
SportAttach ==
    /\ sportGroup.clients < SportClients
    /\ sportGroup.inTable \/ sportGroup.epoch < SportEpochs
    /\ LET g == IF sportGroup.inTable THEN sportGroup
                ELSE NewSportGroup(sportGroup.epoch + 1)
           st == startSportGroup([g EXCEPT !.clients = @ + 1])
       IN /\ sportGroup' = st.group
          /\ sportTasks' = sportTasks \o st.tasks \o <<"poll">>
          /\ Len(sportTasks') <= SportTasks
    /\ UNCHANGED <<sportReqs, sportRegistry, sportNextSub, sportTicks>>
    /\ OnlySport

\* request.signal 'abort' of a subscriber of the group
SportAbort ==
    /\ sportGroup.inTable
    /\ sportGroup.clients > 0
    /\ sportGroup' =
          IF sportGroup.clients = 1
          THEN [stopSportGroup(sportGroup) EXCEPT !.clients = 0, !.cleanupTimer = TRUE]
          ELSE [sportGroup EXCEPT !.clients = @ - 1]
    /\ UNCHANGED <<sportTasks, sportReqs, sportRegistry, sportNextSub, sportTicks>>
    /\ OnlySport

\* the grace timer fires: the group leaves the table and its subscriptions
\* are handed to unsubscribe(), which deletes them from the registry
SportGraceExpires ==
    /\ sportGroup.inTable
    /\ sportGroup.cleanupTimer
    /\ sportGroup.clients = 0
    /\ sportTasks = <<>>
    /\ sportGroup' = [sportGroup EXCEPT !.inTable = FALSE, !.timer = FALSE,
                                        !.cleanupTimer = FALSE,
                                        !.gamesSubid = 0, !.gamesSubscribing = FALSE,
                                        !.oddsSubid = 0, !.oddsSubscribing = FALSE]
    /\ sportRegistry' = sportRegistry \ {sportGroup.gamesSubid, sportGroup.oddsSubid}
    /\ UNCHANGED <<sportTasks, sportReqs, sportNextSub, sportTicks>>
    /\ OnlySport

SubscribeRequest(kind, epoch) == [kind |-> kind, epoch |-> epoch]

\* ensureLiveSportGamesSubscription(group) up to its await
ensureLiveSportGamesSubscription ==
    IF sportGroup.gamesSubid /= 0 \/ sportGroup.gamesSubscribing
    THEN UNCHANGED <<sportGroup, sportReqs>>
    ELSE /\ sportGroup' = [sportGroup EXCEPT !.gamesSubscribing = TRUE]
         /\ sportReqs' = sportReqs \cup {SubscribeRequest("games", sportGroup.epoch)}

\* ensureLiveSportOddsSubscription(group) up to its await
ensureLiveSportOddsSubscription ==
    IF sportGroup.oddsSubid /= 0 \/ sportGroup.oddsSubscribing
    THEN UNCHANGED <<sportGroup, sportReqs>>
    ELSE /\ sportGroup' = [sportGroup EXCEPT !.oddsSubscribing = TRUE]
         /\ sportReqs' = sportReqs \cup {SubscribeRequest("odds", sportGroup.epoch)}

\* the first callback in the queue runs
SportRunTask ==
    /\ sportTasks /= <<>>
    /\ sportTasks' = Tail(sportTasks)
    /\ CASE Head(sportTasks) = "ensureGames" -> ensureLiveSportGamesSubscription
         [] Head(sportTasks) = "ensureOdds" -> ensureLiveSportOddsSubscription
         [] OTHER -> /\ sportGroup' = sportPoll(sportGroup)
                     /\ sportReqs' = sportReqs
    /\ UNCHANGED <<sportRegistry, sportNextSub, sportTicks>>
    /\ OnlySport

\* the feed accepts a subscribe: subscribeGet registers the subid and the
\* ensure that awaited it stores it in its group object
SportSubscribed(r) ==
    /\ r \in sportReqs
    /\ sportNextSub <= SportSubs
    /\ sportReqs' = sportReqs \ {r}
    /\ sportRegistry' = sportRegistry \cup {sportNextSub}
    /\ sportNextSub' = sportNextSub + 1
    /\ sportGroup' =
          IF r.epoch /= sportGroup.epoch THEN sportGroup
          ELSE IF r.kind = "games"
          THEN [sportGroup EXCEPT !.gamesSubid = sportNextSub, !.timer = FALSE,
                                  !.gamesSubscribing = FALSE]
          ELSE [sportGroup EXCEPT !.oddsSubid = sportNextSub, !.oddsSubscribing = FALSE]
    /\ UNCHANGED <<sportTasks, sportTicks>>
    /\ OnlySport

\* the feed rejects a subscribe: the catch of the ensure that awaited it
SportRejected(r) ==
    /\ r \in sportReqs
    /\ sportReqs' = sportReqs \ {r}
    /\ IF r.epoch /= sportGroup.epoch
       THEN UNCHANGED <<sportGroup, sportTasks>>
       ELSE IF r.kind = "games"
       THEN /\ sportGroup' = [sportGroup EXCEPT !.timer = TRUE, !.gamesSubscribing = FALSE]
            /\ sportTasks' = Append(sportTasks, "poll")
            /\ Len(sportTasks') <= SportTasks
       ELSE /\ sportGroup' = [sportGroup EXCEPT !.oddsSubscribing = FALSE]
            /\ sportTasks' = sportTasks
    /\ UNCHANGED <<sportRegistry, sportNextSub, sportTicks>>
    /\ OnlySport

\* the poll interval of the group fires
SportTick ==
    /\ sportGroup.timer
    /\ sportTicks < SportTicks
    /\ sportTicks' = sportTicks + 1
    /\ sportGroup' = sportPoll(sportGroup)
    /\ UNCHANGED <<sportTasks, sportReqs, sportRegistry, sportNextSub>>
    /\ OnlySport

InitSport == InitSession(0, 0, 0, FALSE)

NextSport ==
    \/ SportAttach
    \/ SportAbort
    \/ SportGraceExpires
    \/ SportRunTask
    \/ \E r \in sportReqs : SportSubscribed(r)
    \/ \E r \in sportReqs : SportRejected(r)
    \/ SportTick

SpecSport == InitSport /\ [][NextSport]_vars

\* C31: a firing of the poll interval of a group that has a subscriber and
\* neither a games subscription nor a subscribe under way sends the
\* subscribe again
SubscribeRetriedAtTick ==
    [][(/\ sportTicks' = sportTicks + 1
        /\ sportGroup.inTable
        /\ sportGroup.clients > 0
        /\ sportGroup.gamesSubid = 0
        /\ ~sportGroup.gamesSubscribing
        /\ sportTasks = <<>>)
          => sportGroup'.gamesSubscribing]_vars


\* C35: when no callback waits and no subscribe awaits its reply, every
\* subid of the registry is held by a group of the table, also when the
\* reply to a subscribe came after the grace timer had removed the group
NoOrphanSubscription ==
    (sportTasks = <<>> /\ sportReqs = {}) =>
        \A x \in sportRegistry :
            sportGroup.inTable /\ x \in {sportGroup.gamesSubid, sportGroup.oddsSubid}


(***************************************************************************)
(* The interval timers and their cleanup                                   *)
(*                                                                         *)
(* The counts heartbeat of the hub, the heartbeat of the live-tracker      *)
(* proxy and the two intervals of a prematch sport group.  A call of       *)
(* clearInterval returns or throws, as the caller of the stop function is  *)
(* given to choose; a call that throws leaves the interval armed.          *)
(***************************************************************************)
OnlyStop == UNCHANGED <<earlyVars, sportVars, prioVars, flushVars, uiVars>>

TimerFields == {"countsHeartbeatTimer", "heartbeatTimer", "timer", "oddsTimer"}

\* field = setInterval(...) for the fields of fs that are null
SetIntervals(fs) ==
    /\ \E f \in fs : timerRef[f] = 0
    /\ LET todo == {f \in fs : timerRef[f] = 0}
           \* handles in the order of the statements: timer before oddsTimer
           handle(f) == IF f = "oddsTimer" /\ "timer" \in todo
                        THEN nextHandle + 1 ELSE nextHandle
       IN /\ nextHandle + Cardinality(todo) - 1 <= StopHandles
          /\ timerRef' = [f \in TimerFields |-> IF f \in todo THEN handle(f) ELSE timerRef[f]]
          /\ armed' = armed \cup {handle(f) : f \in todo}
          /\ nextHandle' = nextHandle + Cardinality(todo)
    /\ lastStop' = "none"
    /\ OnlyStop

startCountsHeartbeat == SetIntervals({"countsHeartbeatTimer"})

startHeartbeat == SetIntervals({"heartbeatTimer"})

\* startSportGroup of a prematch group: both intervals
startPrematchGroup == SetIntervals({"timer", "oddsTimer"})

\* the statements  if (ref != null) { clearInterval(ref); ref = null; }  for
\* the fields of the sequence, one after the other; throws: the fields whose
\* clearInterval throws, which ends the function
RECURSIVE ClearAndNull(_, _, _)
ClearAndNull(st, fields, throws) ==
    IF fields = <<>> THEN st
    ELSE LET f == Head(fields) IN
         IF st.ref[f] = 0 THEN ClearAndNull(st, Tail(fields), throws)
         ELSE IF f \in throws THEN st
         ELSE ClearAndNull([ref |-> [st.ref EXCEPT ![f] = 0],
                            armed |-> st.armed \ {st.ref[f]}],
                           Tail(fields), throws)

StopFunction(name, fields, throws) ==
    /\ \E i \in DOMAIN fields : timerRef[fields[i]] /= 0
    /\ LET st == ClearAndNull([ref |-> timerRef, armed |-> armed], fields, throws) IN
       /\ timerRef' = st.ref
       /\ armed' = st.armed
    /\ lastStop' = name
    /\ UNCHANGED nextHandle
    /\ OnlyStop

stopCountsHeartbeat(throws) ==
    StopFunction("stopCountsHeartbeat", <<"countsHeartbeatTimer">>, throws)

stopHeartbeat(throws) == StopFunction("stopHeartbeat", <<"heartbeatTimer">>, throws)

stopSportGroupTimers(throws) == StopFunction("stopSportGroup", <<"timer", "oddsTimer">>, throws)

InitStop == InitSession(0, 0, 0, FALSE)

NextStop ==
    \/ startCountsHeartbeat
    \/ startHeartbeat
    \/ startPrematchGroup
    \/ \E throws \in SUBSET TimerFields : stopCountsHeartbeat(throws)
    \/ \E throws \in SUBSET TimerFields : stopHeartbeat(throws)
    \/ \E throws \in SUBSET TimerFields : stopSportGroupTimers(throws)

SpecStop == InitStop /\ [][NextStop]_vars

\* C32: when a stop function has run, every reference it tracks is null,
\* also when a clearInterval it called has thrown
StopNullsReferences ==
    /\ lastStop = "stopCountsHeartbeat" => timerRef["countsHeartbeatTimer"] = 0
    /\ lastStop = "stopHeartbeat" => timerRef["heartbeatTimer"] = 0
    /\ lastStop = "stopSportGroup" => timerRef["timer"] = 0 /\ timerRef["oddsTimer"] = 0


(***************************************************************************)
(* The market-type priority of the odds handlers                           *)
(*                                                                         *)
(* getMarketTypePriority answers with the kinds the feed lists for the     *)
(* sport, or with the static list of the sport when the feed lists none or *)
(* does not answer.  The competition and prematch handlers merge that      *)
(* answer with the static list; the live handler takes it as it is.        *)
(***************************************************************************)
OnlyPrio == UNCHANGED <<earlyVars, sportVars, stopVars, flushVars, uiVars>>

\* kinds the feed may list: two of the static lists and one of neither
FeedKinds == {"P1XP2", "P1P2", "TOTALS"}

getSportMainMarketTypePriority(sportName) ==
    IF sportName = "football"
    THEN <<"P1XP2", "W1XW2", "1X2", "MATCH_RESULT", "MATCHRESULT">>
    ELSE <<"P1P2", "P1XP2", "W1W2", "W1XW2">>

getMarketTypePriority(ok, details, sportName) ==
    IF ok /\ details /= <<>> THEN details ELSE getSportMainMarketTypePriority(sportName)

Includes(list, t) == \E i \in DOMAIN list : list[i] = t

\* for (const t of list) if (!merged.includes(t)) merged.push(t)
RECURSIVE PushNew(_, _)
PushNew(merged, list) ==
    IF list = <<>> THEN merged
    ELSE PushNew(IF Includes(merged, Head(list)) THEN merged ELSE Append(merged, Head(list)),
                 Tail(list))

MergedPriority(dynamicTypes, fallbackTypes) ==
    LET merged == PushNew(PushNew(<<>>, dynamicTypes), fallbackTypes)
    IN IF merged /= <<>> THEN merged ELSE fallbackTypes

\* the list of the live handlers: group.oddsTypePriority, the static list
\* when that is empty
LivePriority(types, sportName) ==
    LET oddsTypePriority == IF types /= <<>> THEN types
                            ELSE getSportMainMarketTypePriority(sportName)
    IN IF oddsTypePriority /= <<>> THEN oddsTypePriority
       ELSE getSportMainMarketTypePriority(sportName)

PriorityInputs ==
    /\ prioPath = "idle"
    /\ \E sportName \in {"football", "tennis"}, ok \in BOOLEAN, n \in 0..MaxKinds :
         \E details \in [1..n -> FeedKinds] :
            /\ prioSport' = sportName
            /\ prioOk' = ok
            /\ prioDetails' = details
    /\ prioPath' = "asked"
    /\ UNCHANGED typePriority
    /\ OnlyPrio

BuildPriority(path, list) ==
    /\ prioPath = "asked"
    /\ typePriority' = list
    /\ prioPath' = path
    /\ UNCHANGED <<prioSport, prioDetails, prioOk>>
    /\ OnlyPrio

CompetitionOddsPriority ==
    BuildPriority("competition",
                  MergedPriority(getMarketTypePriority(prioOk, prioDetails, prioSport),
                                 getSportMainMarketTypePriority(prioSport)))

PrematchOddsPriority ==
    BuildPriority("prematch",
                  MergedPriority(getMarketTypePriority(prioOk, prioDetails, prioSport),
                                 getSportMainMarketTypePriority(prioSport)))

LiveOddsPriority ==
    BuildPriority("live",
                  LivePriority(getMarketTypePriority(prioOk, prioDetails, prioSport), prioSport))

InitPrio == InitSession(0, 0, 0, FALSE)

NextPrio ==
    \/ PriorityInputs
    \/ CompetitionOddsPriority
    \/ PrematchOddsPriority
    \/ LiveOddsPriority

SpecPrio == InitPrio /\ [][NextPrio]_vars

\* C33: the list a handler uses holds no kind twice, starts with the kinds
\* getMarketTypePriority answered, in their order, and holds every kind of
\* the static list of the sport, whichever handler built it
PriorityIsDynamicThenFallback ==
    prioPath \in {"live", "prematch", "competition"} =>
        LET dynamicTypes == getMarketTypePriority(prioOk, prioDetails, prioSport)
            fallbackTypes == getSportMainMarketTypePriority(prioSport)
        IN /\ \A i, j \in DOMAIN typePriority : typePriority[i] = typePriority[j] => i = j
           /\ \A i \in DOMAIN fallbackTypes : Includes(typePriority, fallbackTypes[i])
           /\ typePriority = PushNew(PushNew(<<>>, dynamicTypes), fallbackTypes)


(***************************************************************************)
(* The flush alarm of the metrics object                                   *)
(*                                                                         *)
(* Every report marks the aggregate dirty and sets the alarm of the object *)
(* five seconds ahead.  An object has one alarm: setting it replaces the   *)
(* time it was set to.  The alarm fires at the second it is set to, which  *)
(* is the earliest the runtime fires it.                                   *)
(***************************************************************************)
OnlyFlush == UNCHANGED <<earlyVars, sportVars, stopVars, prioVars, uiVars>>

FlushDelay == 5

\* scheduleFlush
scheduleFlush(isDirty, at) == IF isDirty THEN flushNow + FlushDelay ELSE at

\* handleReport: dirty = true; scheduleFlush()
FlushReport ==
    /\ flushDirty' = TRUE
    /\ dirtySince' = IF flushDirty THEN dirtySince ELSE flushNow
    /\ alarmAt' = scheduleFlush(TRUE, alarmAt)
    /\ UNCHANGED <<flushNow, flushes>>
    /\ OnlyFlush

\* alarm: flush
FlushAlarm ==
    /\ alarmAt /= -1
    /\ flushNow >= alarmAt
    /\ alarmAt' = -1
    /\ flushDirty' = FALSE
    /\ dirtySince' = -1
    /\ flushes' = IF flushDirty THEN flushes + 1 ELSE flushes
    /\ UNCHANGED flushNow
    /\ OnlyFlush

FlushTick ==
    /\ flushNow < FlushClock
    /\ alarmAt = -1 \/ flushNow < alarmAt
    /\ flushNow' = flushNow + 1
    /\ UNCHANGED <<flushDirty, dirtySince, alarmAt, flushes>>
    /\ OnlyFlush

InitFlush == InitSession(0, 0, 0, FALSE)

NextFlush ==
    \/ FlushReport
    \/ FlushAlarm
    \/ FlushTick

SpecFlush == InitFlush /\ [][NextFlush]_vars

\* C34: a dirty aggregate is never older than five seconds: the first report
\* storage does not hold came at most FlushDelay seconds ago
DirtyAtMostFlushDelay ==
    flushDirty => flushNow - dirtySince <= FlushDelay


(***************************************************************************)
(* Events of a socket the hub has replaced                                 *)
(***************************************************************************)
\* C36: a 'close' or 'error' event of a socket that is not the one this.ws
\* holds leaves this.ws, the session token, the pending requests and the
\* subscription registry as they are
SupersededSocketIsIgnored ==
    [][\A s \in SockIds :
          (/\ sock'[s] \in {"closed", "erred"}
           /\ sock'[s] /= sock[s]
           /\ ws /= 0
           /\ ws /= s)
             => /\ ws' = ws
                /\ sessionId' = sessionId
                /\ pending' = pending
                /\ subscriptions' = subscriptions]_vars


(***************************************************************************)
(* The upstream sockets of the live-tracker proxy                          *)
(***************************************************************************)
TrackerLiveSockets == {x \in DOMAIN trackerSock : trackerSock[x] \in {"connecting", "open"}}

\* C37: the proxy has at most one upstream socket open or connecting
TrackerAtMostOneSocket == Cardinality(TrackerLiveSockets) <= 1

\* C38: while the proxy has a subscriber, an upstream socket of it is open
\* or connecting
SubscribersHaveUpstream == trackerClients /= {} => TrackerLiveSockets /= {}


(***************************************************************************)
(* The round robin of the prematch odds poll                               *)
(*                                                                         *)
(* The odds interval keeps firing, an odds request is answered or fails    *)
(* within its timeout, and a broadcast returns.  What the games poll finds *)
(* is for the feed to say.                                                 *)
(***************************************************************************)
OddsRequestSettles ==
    \/ \E ids \in SUBSET {oddsChunk[i] : i \in DOMAIN oddsChunk} :
          \E fps \in [ids -> 0..CacheFps] : OddsChunkAnswered(fps)
    \/ OddsChunkFails

SpecPreFair ==
    /\ SpecPre
    /\ WF_vars(pollSportOddsGroup)
    /\ WF_vars(OddsRequestSettles)
    /\ WF_vars(OddsPollReturns)
    /\ WF_vars(OddsBroadcastReturns)

\* the game is in the list of the group and the cache has no entry of it
\* that is younger than ODDS_REFRESH_AFTER_MS
AwaitsOdds(g) ==
    /\ \E i \in DOMAIN oddsGameIds : oddsGameIds[i] = g
    /\ NeedsRefresh(oddsCache, g, now)

\* C39: a game of the list whose odds are missing or stale is named in an
\* odds request sooner or later, unless it leaves the list or its entry is
\* renewed otherwise, whatever the games poll does to the cursor
NoGameIdStarves ==
    \A g \in 1..PreGames :
        AwaitsOdds(g) ~> ((\E i \in DOMAIN oddsChunk : oddsChunk[i] = g) \/ ~AwaitsOdds(g))


(***************************************************************************)
(* The live stream of the page                                             *)
(*                                                                         *)
(* The page holds one EventSource, the interval that polls the odds, the   *)
(* interval that refreshes the details of the selected game and the        *)
(* timeout that retries after an error.  A source fires no event once it   *)
(* is closed.  The stream of the selected game, which stopLiveStream stops *)
(* as well, is left out.                                                   *)
(***************************************************************************)
OnlyUi == UNCHANGED <<earlyVars, sportVars, stopVars, prioVars, flushVars>>

Page ==
    [source |-> liveStreamSource, sportId |-> liveStreamSportId,
     retry |-> liveStreamRetryTimeoutId, odds |-> liveStreamOddsIntervalId,
     details |-> liveStreamDetailsIntervalId, hasOdds |-> liveStreamHasOddsSse,
     sources |-> uiSources, timers |-> uiTimers, next |-> uiNext]

UiLiveSources(sources) == {x \in DOMAIN sources : sources[x] \in {"connecting", "open"}}

UiCommit(u, op) ==
    /\ liveStreamSource' = u.source
    /\ liveStreamSportId' = u.sportId
    /\ liveStreamRetryTimeoutId' = u.retry
    /\ liveStreamOddsIntervalId' = u.odds
    /\ liveStreamDetailsIntervalId' = u.details
    /\ liveStreamHasOddsSse' = u.hasOdds
    /\ uiSources' = u.sources
    /\ uiTimers' = u.timers
    /\ uiNext' = u.next
    /\ uiLast' = [op |-> op,
                  cleared |-> Cardinality(uiTimers \ u.timers)
                              + Cardinality(UiLiveSources(uiSources) \ UiLiveSources(u.sources))]
    /\ OnlyUi

\* clearInterval(id), clearTimeout(id)
clearTimer(u, id) == [u EXCEPT !.timers = {t \in @ : t.id /= id}]

\* a cleanup that clears the odds interval and forgets the details interval
clearOddsIntervalOnly(u) ==
    [(IF u.odds /= 0 THEN clearTimer(u, u.odds) ELSE u) EXCEPT !.odds = 0, !.details = 0]

clearLiveStreamIntervals(u) ==
    LET u1 == IF u.odds /= 0 THEN [clearTimer(u, u.odds) EXCEPT !.odds = 0] ELSE u
    IN IF u1.details /= 0 THEN [clearTimer(u1, u1.details) EXCEPT !.details = 0] ELSE u1

stopLiveStream(u) ==
    LET u1 == IF u.retry /= 0 THEN [clearTimer(u, u.retry) EXCEPT !.retry = 0] ELSE u
        u2 == clearLiveStreamIntervals(u1)
        u3 == IF u2.source /= 0 THEN [u2 EXCEPT !.sources[u2.source] = "closed"] ELSE u2
    IN [u3 EXCEPT !.source = 0, !.sportId = 0, !.hasOdds = FALSE]

startLiveStream(u, mode, key) ==
    IF mode /= "live" THEN u
    ELSE IF key = 0 THEN stopLiveStream(u)
    ELSE IF u.source /= 0 /\ u.sportId = key /\ u.sources[u.source] /= "closed" THEN u
    ELSE LET u1 == [stopLiveStream(u) EXCEPT !.sportId = key]
             es == u1.next
         IN [u1 EXCEPT !.source = es,
                       !.sources[es] = "connecting",
                       !.odds = es + 1,
                       !.details = es + 2,
                       !.timers = @ \cup {[kind |-> "odds", id |-> es + 1, sid |-> 0],
                                          [kind |-> "details", id |-> es + 2, sid |-> 0]},
                       !.next = es + 3]

\* es.onerror
onerrorHandler(u, mode) ==
    IF mode /= "live" THEN stopLiveStream(u)
    ELSE LET sid == u.sportId
             u1 == [stopLiveStream(u) EXCEPT !.sportId = sid]
         IN [u1 EXCEPT !.retry = u1.next,
                       !.timers = @ \cup {[kind |-> "retry", id |-> u1.next, sid |-> sid]},
                       !.next = @ + 1]

\* the page changes its mode
UiSetMode(mode) ==
    /\ mode /= currentMode
    /\ currentMode' = mode
    /\ UiCommit(Page, "mode")

UiStartLiveStream(key) ==
    /\ uiNext + 2 <= UiHandles
    /\ UiCommit(startLiveStream(Page, currentMode, key), "start")
    /\ UNCHANGED currentMode

UiStopLiveStream ==
    /\ UiCommit(stopLiveStream(Page), "stop")
    /\ UNCHANGED currentMode

UiSourceOpens(x) ==
    /\ uiSources[x] = "connecting"
    /\ UiCommit([Page EXCEPT !.sources[x] = "open"], "open")
    /\ UNCHANGED currentMode

\* the connection of a source fails; fatal: the browser gives the source up
UiSourceError(x, fatal) ==
    /\ uiSources[x] \in {"connecting", "open"}
    /\ uiNext <= UiHandles
    /\ UiCommit(onerrorHandler([Page EXCEPT !.sources[x] =
                                    IF fatal THEN "closed" ELSE "connecting"],
                               currentMode),
                "error")
    /\ UNCHANGED currentMode

\* the 'odds' listener of a source
UiOddsEvent(x) ==
    /\ uiSources[x] = "open"
    /\ UiCommit(IF currentMode /= "live" THEN Page
                ELSE LET u == [Page EXCEPT !.hasOdds = TRUE]
                     IN IF u.odds /= 0 THEN [clearTimer(u, u.odds) EXCEPT !.odds = 0] ELSE u,
                "odds")
    /\ UNCHANGED currentMode

\* the callback of the retry timeout
UiRetryFires(t) ==
    /\ t \in uiTimers
    /\ t.kind = "retry"
    /\ uiNext + 2 <= UiHandles
    /\ LET u == [Page EXCEPT !.timers = @ \ {t}, !.retry = 0]
       IN UiCommit(IF currentMode = "live" THEN startLiveStream(u, currentMode, t.sid) ELSE u,
                   "retry")
    /\ UNCHANGED currentMode

InitUi == InitSession(0, 0, 0, FALSE)

NextUi ==
    \/ \E mode \in {"live", "prematch"} : UiSetMode(mode)
    \/ \E key \in 0..UiSports : UiStartLiveStream(key)
    \/ UiStopLiveStream
    \/ \E x \in 1..UiHandles : UiSourceOpens(x)
    \/ \E x \in 1..UiHandles : \E fatal \in BOOLEAN : UiSourceError(x, fatal)
    \/ \E x \in 1..UiHandles : UiOddsEvent(x)
    \/ \E t \in uiTimers : UiRetryFires(t)

SpecUi == InitUi /\ [][NextUi]_vars

UiTimersOf(kind) == {t \in uiTimers : t.kind = kind}

\* C40: the runtime holds at most one odds interval, one details interval,
\* one retry timeout and one EventSource that is not closed, and none of
\* them when stopLiveStream has run
LiveStreamHoldsOneOfEach ==
    /\ \A kind \in {"odds", "details", "retry"} : Cardinality(UiTimersOf(kind)) <= 1
    /\ Cardinality(UiLiveSources(uiSources)) <= 1
    /\ uiLast.op = "stop" => uiTimers = {} /\ UiLiveSources(uiSources) = {}

\* stopLiveStream has closed the source and cleared both intervals of a
\* stream that was started after an earlier one had been closed
StoppedRunningStream ==
    /\ uiLast = [op |-> "stop", cleared |-> 3]
    /\ \E x \in 1..UiHandles : uiSources[x] = "closed" /\ x + 3 < uiNext

====
